---- MODULE Spec2Model ----
(***************************************************************************)
(* Clinic Audit SaaS: the multi-tenant authorization module.               *)
(*                                                                         *)
(* The model covers the audit aggregate store (routes/audits.js), the      *)
(* access guard (middleware/auth.js) and the team and goals routes         *)
(* (routes/users.js).  The storage layer is PostgreSQL at its default      *)
(* isolation level (READ COMMITTED): a statement sees the committed rows   *)
(* and the writes of its own transaction, a row written by an open         *)
(* transaction is locked until that transaction ends, and an INSERT that   *)
(* meets an uncommitted row with the same unique key waits for it.         *)
(***************************************************************************)
EXTENDS Bags, FiniteSets, Integers, Sequences, TLC

VARIABLES
    now,            \* the clock, in hours
    users,          \* table users: id -> row
    tokens,         \* the session tokens issued so far (held by clients)
    db,             \* committed monthly_audits, payroll_items, additional_expenses, services
    tx,             \* the saveAudit requests in flight (a bag), one per pool client in use
    invitations,    \* table invitations (a set of rows)
    global_goals,   \* table global_goals (a set of rows)
    guard,          \* the request that passed authenticate and waits for its route
    password_reset_tokens,  \* table password_reset_tokens (a set of rows)
    clinics,        \* table clinics (the ids of its rows)
    res             \* the response the last step sent (res.json); NoResp when it sent none

vars == <<now, users, tokens, db, tx, invitations, global_goals, guard,
          password_reset_tokens, clinics, res>>

----------------------------------------------------------------------------
(* Bounds of the model                                                     *)

\* ids gen_random_uuid() can hand out for monthly_audits rows
MaxAuditId == 3
\* pool clients that can hold an open saveAudit transaction at the same time
MaxConn == 2

\* items a client sends in one list of a body
MaxItems == 3

AuditIds == 1..MaxAuditId

----------------------------------------------------------------------------
(* Values                                                                  *)

\* SQL NULL in a text column; JavaScript undefined is sent as NULL by the driver
Null == "NULL"

Clinics == {"A", "B"}

\* bcrypt.hash(password, 10)
bcryptHash(password) == <<"bcrypt", password>>

\* bcrypt.compare(password, hash)
bcryptCompare(password, hash) == hash = bcryptHash(password)

UserRow(id, email, role, clinicId, password) ==
    [id |-> id, email |-> email, role |-> role, clinic_id |-> clinicId,
     is_active |-> TRUE, password_hash |-> bcryptHash(password),
     last_login_at |-> <<>>]

\* the users of the two clinics (DATABASE_SCHEMA.sql users)
InitUsers ==
    [u \in {"u1", "u2", "u3"} |->
        CASE u = "u1" -> UserRow("u1", "a1@x", "admin", "A", "pw1")
          [] u = "u2" -> UserRow("u2", "a2@x", "member", "A", "pw2")
          [] u = "u3" -> UserRow("u3", "b1@x", "admin", "B", "pw3")]

NoUser == [UserRow("none", "none", "none", "none", "none") EXCEPT !.is_active = FALSE]

\* months a client sends (YYYY-MM); "2025-13" is no calendar month
MonthInputs == {"2025-02", "2025-13"}

\* `${month}-01`, the value bound to the DATE column
ToDate(month) == month \o "-01"

\* the dates PostgreSQL accepts among those the clients can produce, in order
DateOrd == [d \in {"2025-01-01", "2025-02-01"} |->
               IF d = "2025-01-01" THEN 1 ELSE 2]

ValidDate(d) == d \in DOMAIN DateOrd

----------------------------------------------------------------------------
(* Request bodies of POST /api/audits.  A key that is missing from the     *)
(* record is a field the client left out (undefined).                      *)

Full ==
    [clinicName |-> "Acme", revenue |-> 5, operatingExpenses |-> 2, cogs |-> 1,
     websiteVisits |-> 9, websiteConversionRate |-> 2, newClientVisits |-> 3,
     clientsConvertingToTreatment |-> 1, totalClients |-> 7,
     totalAppointments |-> 8, marketingSpend |-> 1,
     payroll  |-> <<[name |-> "nurse", amount |-> 2],
                    [name |-> "nurse", amount |-> 2],
                    [name |-> "desk"]>>,
     expenses |-> <<[name |-> "rent", amount |-> 3, notes |-> "hq"]>>,
     services |-> <<[name |-> "physio", providerHours |-> 4, bookedHours |-> 3,
                     revenue |-> 5, commission |-> 1, allocatedExpenses |-> 1]>>]

Small ==
    [revenue |-> 6, cogs |-> 0,
     payroll  |-> <<[name |-> "locum", amount |-> 4]>>,
     services |-> <<>>]

\* the last child insert of this body violates services.name NOT NULL
BadChild ==
    [clinicName |-> "Acme", revenue |-> 7,
     payroll  |-> <<[name |-> "temp", amount |-> 1]>>,
     expenses |-> <<[name |-> "fee", notes |-> ""]>>,
     services |-> <<[providerHours |-> 2]>>]

Contents == {Full, Small, BadChild}

\* a body: the content, the month, and a clinic id the client may add
Body(content, month, clinicId) ==
    [content |-> content, auditMonth |-> month, clinicId |-> clinicId]

\* const { auditMonth, clinicName, ..., services } = req.body
Destructure(body) == [content |-> body.content, auditMonth |-> body.auditMonth]

NoBody == Destructure(Body(Small, "none", "none"))

----------------------------------------------------------------------------
(* JavaScript coercions of the handler                                     *)

\* x || 0
OrZero(obj, key) ==
    IF key \in DOMAIN obj /\ obj[key] # 0 THEN obj[key] ELSE 0

\* a text parameter passed as is: undefined becomes NULL
AsText(obj, key) ==
    IF key \in DOMAIN obj THEN obj[key] ELSE Null

\* x || null
OrNull(obj, key) ==
    IF key \in DOMAIN obj /\ obj[key] # "" THEN obj[key] ELSE Null

\* the items the loop `if (list && list.length > 0) for (const item of list)` visits
Items(content, key) ==
    IF key \in DOMAIN content THEN content[key] ELSE <<>>

----------------------------------------------------------------------------
(* The access guard (middleware/auth.js)                                   *)

\* process.env.SESSION_TIMEOUT || '24h', in hours
SessionTimeout == 24

\* HMAC of the payload under JWT_SECRET: only the server can compute it
Sign(p) == <<p.userId, p.clinicId, p.role, p.exp>>

\* jwt.sign({userId, clinicId, role}, JWT_SECRET, {expiresIn})
jwtSign(u, t) ==
    LET p == [userId |-> u.id, clinicId |-> u.clinic_id, role |-> u.role,
              exp |-> t + SessionTimeout]
    IN  [userId |-> p.userId, clinicId |-> p.clinicId, role |-> p.role,
         exp |-> p.exp, sig |-> Sign(p)]

\* a string that is no JWT
MalformedToken ==
    [userId |-> "none", clinicId |-> "none", role |-> "none", exp |-> 0,
     sig |-> <<>>]

\* jwt.verify(token, JWT_SECRET): the signature matches and the token is unexpired
jwtVerify(token, t) ==
    /\ token.sig = Sign(token)
    /\ t < token.exp

NoHeader == [scheme |-> "none", token |-> MalformedToken]
Bearer(token) == [scheme |-> "Bearer", token |-> token]
Basic(token) == [scheme |-> "Basic", token |-> token]

\* a guard that does not look at is_active
authenticateAnyUser(hdr, U, t) ==
    IF hdr.scheme # "Bearer"
    THEN [status |-> 401, error |-> "No token provided", user |-> NoUser]
    ELSE IF ~jwtVerify(hdr.token, t)
    THEN [status |-> 401, error |-> "Invalid or expired token", user |-> NoUser]
    ELSE IF hdr.token.userId \notin DOMAIN U
    THEN [status |-> 401, error |-> "User not found", user |-> NoUser]
    ELSE [status |-> 200, error |-> "", user |-> U[hdr.token.userId]]

\* authenticate: the status it answers, or 200 and req.user when it calls next()
authenticate(hdr, U, t) ==
    IF hdr.scheme # "Bearer"
    THEN [status |-> 401, error |-> "No token provided", user |-> NoUser]
    ELSE IF ~jwtVerify(hdr.token, t)
    THEN [status |-> 401, error |-> "Invalid or expired token", user |-> NoUser]
    ELSE IF hdr.token.userId \notin DOMAIN U
    THEN [status |-> 401, error |-> "User not found", user |-> NoUser]
    ELSE IF ~U[hdr.token.userId].is_active
    THEN [status |-> 403, error |-> "Account is inactive", user |-> NoUser]
    ELSE [status |-> 200, error |-> "", user |-> U[hdr.token.userId]]

\* the tenant scope taken from the request instead
TenantScopeOfClient(reqUser, req) == req.clinicId

\* the tenant scope of a query: req.user.clinic_id, whatever the client sent
TenantScope(reqUser, req) == reqUser.clinic_id

----------------------------------------------------------------------------
(* Rows and tables of the audit aggregate (DATABASE_SCHEMA.sql)            *)

ChildTables == <<"payroll_items", "additional_expenses", "services">>
ListKeys == <<"payroll", "expenses", "services">>

EmptyChildren ==
    [payroll_items |-> EmptyBag, additional_expenses |-> EmptyBag,
     services |-> EmptyBag]

EmptyDb ==
    [monthly_audits |-> {}, payroll_items |-> EmptyBag,
     additional_expenses |-> EmptyBag, services |-> EmptyBag]

\* the row the INSERT of the upsert proposes (EXCLUDED)
AuditRow(id, clinicId, date, userId, c) ==
    [id |-> id, clinic_id |-> clinicId, audit_month |-> date,
     clinic_name |-> AsText(c, "clinicName"),
     revenue |-> OrZero(c, "revenue"),
     operating_expenses |-> OrZero(c, "operatingExpenses"),
     cogs |-> OrZero(c, "cogs"),
     website_visits |-> OrZero(c, "websiteVisits"),
     website_conversion_rate |-> OrZero(c, "websiteConversionRate"),
     new_client_visits |-> OrZero(c, "newClientVisits"),
     clients_converting_to_treatment |-> OrZero(c, "clientsConvertingToTreatment"),
     total_clients |-> OrZero(c, "totalClients"),
     total_appointments |-> OrZero(c, "totalAppointments"),
     marketing_spend |-> OrZero(c, "marketingSpend"),
     created_by |-> userId]

\* a DO UPDATE SET list that also has created_by = EXCLUDED.created_by
DoUpdateCreator(old, excluded) == [excluded EXCEPT !.id = old.id]

\* ON CONFLICT (clinic_id, audit_month) DO UPDATE SET ...: every column of the
\* proposed row but id, clinic_id, audit_month and created_by
DoUpdate(old, excluded) ==
    [excluded EXCEPT !.id = old.id, !.created_by = old.created_by]

\* the row an INSERT into child table k binds for one item of the body
ChildRow(k, auditId, item) ==
    CASE k = 1 -> [monthly_audit_id |-> auditId, name |-> AsText(item, "name"),
                   amount |-> OrZero(item, "amount")]
      [] k = 2 -> [monthly_audit_id |-> auditId, name |-> AsText(item, "name"),
                   amount |-> OrZero(item, "amount"),
                   notes |-> OrNull(item, "notes")]
      [] k = 3 -> [monthly_audit_id |-> auditId, name |-> AsText(item, "name"),
                   provider_hours |-> OrZero(item, "providerHours"),
                   booked_hours |-> OrZero(item, "bookedHours"),
                   revenue |-> OrZero(item, "revenue"),
                   commission |-> OrZero(item, "commission"),
                   allocated_expenses |-> OrZero(item, "allocatedExpenses")]

\* rows of a child table that reference an audit
ChildrenOf(table, auditId) ==
    LET rows == {r \in DOMAIN table : r.monthly_audit_id = auditId}
    IN  [r \in rows |-> table[r]]

\* a DELETE that does not cascade
WithChildren(table, ids) == table

\* rows of a child table that reference none of the audits in ids
WithoutChildrenOf(table, ids) ==
    LET rows == {r \in DOMAIN table : r.monthly_audit_id \notin ids}
    IN  [r \in rows |-> table[r]]

----------------------------------------------------------------------------
(* Transactions on the storage layer                                       *)

\* the writes of a transaction that are not committed yet: audit rows
\* written, child rows deleted and child rows inserted
NoWrites == [audits |-> {}, del |-> EmptyChildren, ins |-> EmptyChildren]

\* the tables after the writes w are applied to the tables D
Apply(D, w) ==
    [monthly_audits |->
        {r \in D.monthly_audits : \A x \in w.audits : x.id # r.id} \cup w.audits,
     payroll_items |->
        (D.payroll_items (-) w.del.payroll_items) (+) w.ins.payroll_items,
     additional_expenses |->
        (D.additional_expenses (-) w.del.additional_expenses)
            (+) w.ins.additional_expenses,
     services |->
        (D.services (-) w.del.services) (+) w.ins.services]

\* the writes w followed by the writes e of one more statement
Merge(w, e) ==
    [audits |-> {r \in w.audits : \A x \in e.audits : x.id # r.id} \cup e.audits,
     del |-> [t \in DOMAIN EmptyChildren |-> w.del[t] (+) (e.del[t] (-) w.ins[t])],
     ins |-> [t \in DOMAIN EmptyChildren |-> (w.ins[t] (-) e.del[t]) (+) e.ins[t]]]

\* a statement run with pool.query: it commits on its own
StatementAutocommit(D, w, e) == [db |-> Apply(D, e), log |-> w]

\* a statement run with client.query between BEGIN and COMMIT: its writes
\* stay with the transaction, the committed tables do not change
Statement(D, w, e) == [db |-> D, log |-> Merge(w, e)]

\* client.query('COMMIT')
CommitTx(D, w) == Apply(D, w)

\* a catch block that ends the transaction without undoing its writes
RollbackTxKeeps(D, w) == Apply(D, w)

\* client.query('ROLLBACK')
RollbackTx(D, w) == D

\* a storage layer on which no statement waits for another transaction
RowLockedNever(T, clinicId, date) == FALSE

\* an INSERT ... ON CONFLICT or a DELETE that meets a row written by an open
\* transaction of T under the same (clinic_id, audit_month) waits for it
RowLocked(T, clinicId, date) ==
    \E t \in T :
        \E r \in t.log.audits :
            r.clinic_id = clinicId /\ r.audit_month = date

\* what a statement of a transaction with the writes w sees
View(w) == Apply(db, w)

\* one result row of the SELECT: the audit and, through the LEFT JOINs on
\* ma.id = monthly_audit_id, its children (each child row keeps its
\* monthly_audit_id here in place of its own id)
Composite(D, r) ==
    [audit |-> r,
     payroll |-> ChildrenOf(D.payroll_items, r.id),
     expenses |-> ChildrenOf(D.additional_expenses, r.id),
     services |-> ChildrenOf(D.services, r.id)]

\* the composite audits stored under (clinic_id, audit_month)
Stored(D, clinicId, date) ==
    {Composite(D, r) : r \in {x \in D.monthly_audits :
                                x.clinic_id = clinicId /\ x.audit_month = date}}

\* the requests in flight
InFlight == BagToSet(tx)
One(t) == SetToBag({t})

\* ids in use, committed or not
UsedIds ==
    {r.id : r \in db.monthly_audits}
        \cup UNION {{r.id : r \in t.log.audits} \cup {t.auditId} : t \in InFlight}

\* gen_random_uuid(): an id no row has
FreshIds == AuditIds \ UsedIds
FreshId == CHOOSE id \in FreshIds : \A other \in FreshIds : id <= other

\* the first list at or after k that has an item to insert; 4 when none has
RECURSIVE FirstList(_, _)
FirstList(content, k) ==
    IF k > 3 THEN 4
    ELSE IF Len(Items(content, ListKeys[k])) > 0 THEN k
    ELSE FirstList(content, k + 1)

\* where the handler goes after the statement for item i of list k
AfterInsert(content, k, i) ==
    IF k >= 1 /\ k <= 3 /\ i < Len(Items(content, ListKeys[k]))
    THEN [pc |-> "insert", k |-> k, i |-> i + 1]
    ELSE LET n == FirstList(content, k + 1)
         IN  IF n = 4 THEN [pc |-> "commit", k |-> 0, i |-> 0]
             ELSE [pc |-> "insert", k |-> n, i |-> 1]

\* a saveAudit request in flight: the handler's locals and its transaction.
\* `before` is not program state: it remembers what was stored under the
\* request's (clinic_id, audit_month) when its upsert ran.
SaveRequest(reqUser, scope, body) ==
    [pc |-> "upsert", user |-> reqUser, scope |-> scope,
     body |-> Destructure(body), auditId |-> 0, k |-> 0, i |-> 0,
     log |-> NoWrites, before |-> {}]

NoRequest == SaveRequest(NoUser, "none", Body(Small, "none", "none"))

\* a response: the route, the principal (req.user.id), the month of the
\* path, the status and the body; `req` is the saveAudit request it answers
Resp(op, userId, month, status, body, req) ==
    [op |-> op, user |-> userId, month |-> month, status |-> status,
     body |-> body, req |-> req]

NoResp == Resp("none", "none", "none", 0, <<>>, NoRequest)

----------------------------------------------------------------------------
(* POST /api/audits                                                        *)

\* the catch block: ROLLBACK of the writes w, 500, release the client;
\* (k, i) is the statement that failed
SaveFailed(t, D, w, k, i) ==
    /\ db' = RollbackTx(D, w)
    /\ tx' = tx (-) One(t)
    /\ res' = Resp("saveAudit", t.user.id, "none", 500, <<>>,
                   [t EXCEPT !.pc = "failed", !.k = k, !.i = i, !.log = NoWrites,
                             !.before = IF t.pc = "upsert"
                                        THEN Stored(db, t.scope, ToDate(t.body.auditMonth))
                                        ELSE t.before])

\* the statements of this step went through
SaveStep(t, x, next) ==
    /\ db' = x.db
    /\ tx' = (tx (-) One(t)) (+) One([next EXCEPT !.log = x.log])
    /\ res' = NoResp

\* authenticate, destructure the body, pool.connect() and BEGIN
SaveAuditBegin(hdr, body, fault) ==
    LET a == authenticate(hdr, users, now)
        t == SaveRequest(a.user, TenantScope(a.user, body), body)
    IN  /\ IF a.status # 200
           THEN /\ res' = Resp("saveAudit", "none", "none", a.status, <<>>, NoRequest)
                /\ UNCHANGED <<db, tx>>
           ELSE /\ BagCardinality(tx) < MaxConn
                /\ IF fault
                   THEN /\ db' = RollbackTx(db, NoWrites)
                        /\ tx' = tx
                        /\ res' = Resp("saveAudit", a.user.id, "none", 500, <<>>,
                                       [t EXCEPT !.pc = "failed",
                                                 !.before = Stored(db, t.scope,
                                                     ToDate(t.body.auditMonth))])
                   ELSE /\ db' = db
                        /\ tx' = tx (+) One(t)
                        /\ res' = NoResp
        /\ UNCHANGED <<now, users, tokens, invitations, global_goals, guard,
                     password_reset_tokens, clinics>>

\* a plain INSERT on a table without the unique key
OnConflictInsert(existing, excluded) == excluded

\* the row INSERT ... ON CONFLICT (clinic_id, audit_month) DO UPDATE writes
OnConflict(existing, excluded) ==
    IF existing = {} THEN excluded
    ELSE DoUpdate(CHOOSE r \in existing : TRUE, excluded)

\* the upsert of monthly_audits ... RETURNING id
SaveAuditUpsert(t, fault) ==
    LET date == ToDate(t.body.auditMonth)
        existing == {r \in View(t.log).monthly_audits :
                        r.clinic_id = t.scope /\ r.audit_month = date}
        excluded == AuditRow(FreshId, t.scope, date, t.user.id, t.body.content)
        row == OnConflict(existing, excluded)
        e == [NoWrites EXCEPT !.audits = {row}]
        x == Statement(db, t.log, e)
    IN  /\ t.pc = "upsert"
        /\ IF fault \/ ~ValidDate(date)
           THEN SaveFailed(t, db, t.log, 0, 0)
           ELSE /\ ~RowLocked(InFlight, t.scope, date)
                /\ FreshIds # {}
                /\ SaveStep(t, x, [t EXCEPT !.pc = "delete", !.auditId = row.id,
                                            !.before = Stored(db, t.scope, date)])
        /\ UNCHANGED <<now, users, tokens, invitations, global_goals, guard,
                     password_reset_tokens, clinics>>

\* a handler that deletes the payroll items only
DeleteChildrenPayrollOnly(D, w, auditId, n) ==
    IF n = 0 THEN [db |-> D, log |-> w]
    ELSE Statement(D, w, [NoWrites EXCEPT !.del["payroll_items"] =
                             ChildrenOf(Apply(D, w).payroll_items, auditId)])

\* a handler that does not delete the children
DeleteChildrenSkipped(D, w, auditId, n) == [db |-> D, log |-> w]

\* the tables and the writes after the first n of the three statements
\* DELETE FROM <child table> WHERE monthly_audit_id = auditId
RECURSIVE DeleteChildren(_, _, _, _)
DeleteChildren(D, w, auditId, n) ==
    IF n = 0 THEN [db |-> D, log |-> w]
    ELSE LET p == DeleteChildren(D, w, auditId, n - 1)
             table == ChildTables[n]
             gone == ChildrenOf(Apply(p.db, p.log)[table], auditId)
         IN  Statement(p.db, p.log, [NoWrites EXCEPT !.del[table] = gone])

\* "Delete existing related records": the three DELETEs; failAt is the one
\* that fails, 0 when none does
SaveAuditDeleteChildren(t, failAt) ==
    LET done == DeleteChildren(db, t.log, t.auditId, 3)
        part == DeleteChildren(db, t.log, t.auditId, failAt - 1)
        next == AfterInsert(t.body.content, 0, 0)
    IN  /\ t.pc = "delete"
        /\ IF failAt > 0
           THEN SaveFailed(t, part.db, part.log, failAt, 0)
           ELSE SaveStep(t, done, [t EXCEPT !.pc = next.pc, !.k = next.k])
        /\ UNCHANGED <<now, users, tokens, invitations, global_goals, guard,
                     password_reset_tokens, clinics>>

\* the tables and the writes after the INSERTs for the first n items of list k
RECURSIVE InsertItems(_, _, _, _, _, _)
InsertItems(D, w, k, auditId, items, n) ==
    IF n = 0 THEN [db |-> D, log |-> w]
    ELSE LET p == InsertItems(D, w, k, auditId, items, n - 1)
             row == ChildRow(k, auditId, items[n])
         IN  Statement(p.db, p.log,
                       [NoWrites EXCEPT !.ins[ChildTables[k]] = SetToBag({row})])

\* the first item whose INSERT violates name NOT NULL; 0 when none does
FirstViolation(k, items) ==
    LET bad == {n \in 1..Len(items) : ChildRow(k, 0, items[n]).name = Null}
    IN  IF bad = {} THEN 0 ELSE CHOOSE n \in bad : \A m \in bad : n <= m

\* the loop over list k: one INSERT per item; failAt is the item whose INSERT
\* meets a storage fault, 0 when none does
SaveAuditInsertList(t, failAt) ==
    LET items == Items(t.body.content, ListKeys[t.k])
        bad == FirstViolation(t.k, items)
        stop == IF failAt = 0 THEN bad
                ELSE IF bad = 0 \/ failAt < bad THEN failAt ELSE bad
        done == InsertItems(db, t.log, t.k, t.auditId, items, Len(items))
        part == InsertItems(db, t.log, t.k, t.auditId, items, stop - 1)
        next == AfterInsert(t.body.content, t.k, Len(items))
    IN  /\ t.pc = "insert"
        /\ failAt <= Len(items)
        /\ IF stop > 0
           THEN SaveFailed(t, part.db, part.log, t.k, stop)
           ELSE SaveStep(t, done, [t EXCEPT !.pc = next.pc, !.k = next.k])
        /\ UNCHANGED <<now, users, tokens, invitations, global_goals, guard,
                     password_reset_tokens, clinics>>

\* COMMIT and res.json({message, auditId})
SaveAuditCommit(t, fault) ==
    /\ t.pc = "commit"
    /\ IF fault
       THEN SaveFailed(t, db, t.log, 4, 0)
       ELSE /\ db' = CommitTx(db, t.log)
            /\ tx' = tx (-) One(t)
            /\ res' = Resp("saveAudit", t.user.id, "none", 200, <<t.auditId>>,
                           [t EXCEPT !.pc = "done", !.log = NoWrites])
    /\ UNCHANGED <<now, users, tokens, invitations, global_goals, guard,
                     password_reset_tokens, clinics>>

----------------------------------------------------------------------------
(* GET /api/audits, GET /api/audits/:month, DELETE /api/audits/:month      *)

\* ORDER BY ma.audit_month DESC
RECURSIVE OrderByMonthDesc(_)
OrderByMonthDesc(rows) ==
    IF rows = {} THEN <<>>
    ELSE LET r == CHOOSE x \in rows : \A y \in rows :
                      DateOrd[x.audit_month] >= DateOrd[y.audit_month]
         IN  <<r>> \o OrderByMonthDesc(rows \ {r})

\* a request of the read and delete routes: the month of the path and a
\* clinic id the client may add
Req(month, clinicId) == [auditMonth |-> month, clinicId |-> clinicId]

ListAudits(hdr, clinicId) ==
    LET a == authenticate(hdr, users, now)
        scope == TenantScope(a.user, Req("none", clinicId))
        rows == {r \in db.monthly_audits : r.clinic_id = scope}
        sorted == OrderByMonthDesc(rows)
    IN  /\ IF a.status # 200
           THEN res' = Resp("listAudits", "none", "none", a.status, <<>>, NoRequest)
           ELSE res' = Resp("listAudits", a.user.id, "none", 200,
                            [n \in 1..Len(sorted) |-> Composite(db, sorted[n])],
                            NoRequest)
        /\ UNCHANGED <<now, users, tokens, invitations, global_goals, guard,
                     password_reset_tokens, clinics, db, tx>>

GetAudit(hdr, month, clinicId) ==
    LET a == authenticate(hdr, users, now)
        scope == TenantScope(a.user, Req(month, clinicId))
        date == ToDate(month)
        rows == {r \in db.monthly_audits :
                    r.clinic_id = scope /\ r.audit_month = date}
    IN  /\ IF a.status # 200
           THEN res' = Resp("getAudit", "none", month, a.status, <<>>, NoRequest)
           ELSE IF ~ValidDate(date)
           THEN res' = Resp("getAudit", a.user.id, month, 500, <<>>, NoRequest)
           ELSE IF rows = {}
           THEN res' = Resp("getAudit", a.user.id, month, 404, <<>>, NoRequest)
           ELSE res' = Resp("getAudit", a.user.id, month, 200,
                            <<Composite(db, CHOOSE r \in rows : TRUE)>>, NoRequest)
        /\ UNCHANGED <<now, users, tokens, invitations, global_goals, guard,
                     password_reset_tokens, clinics, db, tx>>

\* a handler that does not look at rowCount
DeleteStatusOk(rowCount) == 200

\* the status DELETE /api/audits/:month answers for the number of rows deleted
DeleteStatus(rowCount) == IF rowCount = 0 THEN 404 ELSE 200

\* DELETE FROM monthly_audits ... with ON DELETE CASCADE on the child tables
DeleteRows(D, rows) ==
    LET ids == {r.id : r \in rows}
    IN  [monthly_audits |-> D.monthly_audits \ rows,
         payroll_items |-> WithoutChildrenOf(D.payroll_items, ids),
         additional_expenses |-> WithoutChildrenOf(D.additional_expenses, ids),
         services |-> WithoutChildrenOf(D.services, ids)]

DeleteAudit(hdr, month, clinicId) ==
    LET a == authenticate(hdr, users, now)
        scope == TenantScope(a.user, Req(month, clinicId))
        date == ToDate(month)
        rows == {r \in db.monthly_audits :
                    r.clinic_id = scope /\ r.audit_month = date}
    IN  /\ IF a.status # 200
           THEN /\ res' = Resp("deleteAudit", "none", month, a.status, <<>>, NoRequest)
                /\ db' = db
           ELSE IF ~ValidDate(date)
           THEN /\ res' = Resp("deleteAudit", a.user.id, month, 500, <<>>, NoRequest)
                /\ db' = db
           ELSE /\ rows # {} => ~RowLocked(InFlight, scope, date)
                /\ db' = DeleteRows(db, rows)
                /\ res' = Resp("deleteAudit", a.user.id, month,
                               DeleteStatus(Cardinality(rows)), <<>>, NoRequest)
        /\ UNCHANGED <<now, users, tokens, invitations, global_goals, guard,
                     password_reset_tokens, clinics, tx>>

----------------------------------------------------------------------------
(* The audit store under concurrent requests of the users of two clinics   *)

\* the users that hold a session in the audit scenario
AuditPrincipals == {"u1", "u3"}

\* what the clients of the audit routes send as Authorization header
AuditHeaders == {Bearer(t) : t \in tokens}

InitAudit ==
    /\ now = 0
    /\ users = InitUsers
    /\ tokens = {jwtSign(InitUsers[u], 0) : u \in AuditPrincipals}
    /\ db = EmptyDb
    /\ tx = EmptyBag
    /\ invitations = {}
    /\ global_goals = {}
    /\ guard = [user |-> NoUser, hdr |-> NoHeader]
    /\ password_reset_tokens = {}
    /\ clinics = Clinics
    /\ res = NoResp

NextAudit ==
    \/ \E hdr \in AuditHeaders, content \in Contents, month \in MonthInputs,
          clinicId \in Clinics, fault \in BOOLEAN :
            SaveAuditBegin(hdr, Body(content, month, clinicId), fault)
    \/ \E t \in InFlight, fault \in BOOLEAN : SaveAuditUpsert(t, fault)
    \/ \E t \in InFlight, failAt \in 0..3 : SaveAuditDeleteChildren(t, failAt)
    \/ \E t \in InFlight, failAt \in 0..MaxItems : SaveAuditInsertList(t, failAt)
    \/ \E t \in InFlight, fault \in BOOLEAN : SaveAuditCommit(t, fault)
    \/ \E hdr \in AuditHeaders, clinicId \in Clinics : ListAudits(hdr, clinicId)
    \/ \E hdr \in AuditHeaders, month \in MonthInputs, clinicId \in Clinics :
            GetAudit(hdr, month, clinicId)
    \/ \E hdr \in AuditHeaders, month \in MonthInputs, clinicId \in Clinics :
            DeleteAudit(hdr, month, clinicId)

SpecAudit == InitAudit /\ [][NextAudit]_vars

\* the two users of clinic A hold a session and save and delete one month
CreatorPrincipals == {"u1", "u2"}

InitCreator ==
    /\ now = 0
    /\ users = InitUsers
    /\ tokens = {jwtSign(InitUsers[u], 0) : u \in CreatorPrincipals}
    /\ db = EmptyDb
    /\ tx = EmptyBag
    /\ invitations = {}
    /\ global_goals = {}
    /\ guard = [user |-> NoUser, hdr |-> NoHeader]
    /\ password_reset_tokens = {}
    /\ clinics = Clinics
    /\ res = NoResp

NextCreator ==
    \/ \E hdr \in AuditHeaders, content \in {Full, Small}, fault \in BOOLEAN :
            SaveAuditBegin(hdr, Body(content, "2025-02", "A"), fault)
    \/ \E t \in InFlight, fault \in BOOLEAN : SaveAuditUpsert(t, fault)
    \/ \E t \in InFlight : SaveAuditDeleteChildren(t, 0)
    \/ \E t \in InFlight : SaveAuditInsertList(t, 0)
    \/ \E t \in InFlight, fault \in BOOLEAN : SaveAuditCommit(t, fault)
    \/ \E hdr \in AuditHeaders : GetAudit(hdr, "2025-02", "A")
    \/ \E hdr \in AuditHeaders : DeleteAudit(hdr, "2025-02", "A")

SpecCreator == InitCreator /\ [][NextCreator]_vars

----------------------------------------------------------------------------
(* Team and goals routes behind the access guard (routes/users.js)         *)

\* the latest hour of the clock
MaxClock == 24
\* session tokens issued in one run
MaxTokens == 2
\* ids gen_random_uuid() can hand out for invitations rows
MaxInvites == 3

InvitationExpiryHours == 72

InviteIds == 1..MaxInvites

\* crypto.randomBytes(32).toString('hex') of the invitation with this id
InviteToken(id) == <<"i1", "i2", "i3", "i4">>[id]

\* an invitation an admin sent at hour 0
Invited(id, email, clinicId, userId, role) ==
    [id |-> id, email |-> email, clinic_id |-> clinicId, invited_by |-> userId,
     role |-> role, token |-> InviteToken(id), status |-> "pending",
     expires_at |-> InvitationExpiryHours, accepted_at |-> <<>>]

\* uuid_in of PostgreSQL reads the text of a uuid parameter: it accepts upper
\* case digits and gives the same value as for lower case ones
UuidIn(text) ==
    CASE text = "U1" -> "u1"
      [] text = "U2" -> "u2"
      [] text = "U3" -> "u3"
      [] OTHER -> text

\* normalizeEmail() of express-validator lowercases the address
NormalizeEmail(email) == IF email = "N@x" THEN "n@x" ELSE email

\* isEmail() of express-validator
IsEmail(email) == email \in {"a1@x", "a2@x", "b1@x", "n@x", "N@x"}

\* a request that passed authenticate and waits for its route: req.user and
\* the Authorization header it came with
Passed(user, hdr) == [user |-> user, hdr |-> hdr]

NoGuard == Passed(NoUser, NoHeader)

\* the request a response answers: the Authorization header and the path
\* parameter or body
GuardReq(hdr, arg) == [hdr |-> hdr, arg |-> arg]

\* router.use(authenticate): the middleware answers 401 or 403, or attaches
\* req.user and calls next()
Authenticate(hdr) ==
    LET a == authenticate(hdr, users, now)
    IN  /\ guard = NoGuard
        /\ IF a.status # 200
           THEN /\ res' = Resp("authenticate", "none", "none", a.status, <<a.error>>,
                               GuardReq(hdr, "none"))
                /\ guard' = NoGuard
           ELSE /\ res' = NoResp
                /\ guard' = Passed(a.user, hdr)

\* a middleware that lets every authenticated user through
requireAdminAny(reqUser) == TRUE

\* requireAdmin calls next()
requireAdmin(reqUser) == reqUser.role = "admin"

\* a route of the authenticated request; admin: the route has requireAdmin
Route(op, admin) ==
    /\ guard # NoGuard
    /\ guard' = NoGuard
    /\ admin /\ ~requireAdmin(guard.user) =>
          res' = Resp(op, guard.user.id, "none", 403, <<"Admin access required">>,
                      GuardReq(guard.hdr, "none"))

\* the route handler runs
Handles(admin) == admin => requireAdmin(guard.user)

\* the answer of a route handler
Answer(op, status, body, arg) ==
    Resp(op, guard.user.id, "none", status, body, GuardReq(guard.hdr, arg))

\* a login that does not record its time
TouchLoginNever(U, id, t) == U

\* UPDATE users SET last_login_at = NOW() WHERE id = $1
TouchLogin(U, id, t) == [U EXCEPT ![id].last_login_at = <<t>>]

\* the user row POST /api/auth/login selects: WHERE u.email = $1
LoginUser(U, email) ==
    LET rows == {u \in DOMAIN U : U[u].email = NormalizeEmail(email)}
    IN  IF rows = {} THEN "none" ELSE CHOOSE u \in rows : TRUE

\* the status and the error POST /api/auth/login answers
LoginOutcome(U, email, password) ==
    LET u == LoginUser(U, email)
    IN  IF ~IsEmail(email) \/ password = ""
        THEN [status |-> 400, error |-> "validation"]
        ELSE IF u = "none"
        THEN [status |-> 401, error |-> "Invalid email or password"]
        ELSE IF ~U[u].is_active
        THEN [status |-> 403, error |-> "Account is inactive"]
        ELSE IF ~bcryptCompare(password, U[u].password_hash)
        THEN [status |-> 401, error |-> "Invalid email or password"]
        ELSE [status |-> 200, error |-> ""]

\* POST /api/auth/login
Login(email, password) ==
    LET u == LoginUser(users, email)
        o == LoginOutcome(users, email, password)
        req == GuardReq(NoHeader, <<email, password>>)
    IN  /\ guard = NoGuard
        /\ UNCHANGED guard
        /\ IF o.status # 200
           THEN /\ res' = Resp("login", "none", "none", o.status, <<o.error>>, req)
                /\ UNCHANGED <<users, tokens>>
           ELSE /\ Cardinality(tokens \cup {jwtSign(users[u], now)}) <= MaxTokens
                /\ users' = TouchLogin(users, u, now)
                /\ tokens' = tokens \cup {jwtSign(users[u], now)}
                /\ res' = Resp("login", u, "none", 200, <<jwtSign(users[u], now)>>, req)

\* GET /api/users
ListUsers ==
    /\ Route("listUsers", TRUE)
    /\ Handles(TRUE) =>
          res' = Answer("listUsers", 200,
                        <<{u \in DOMAIN users : users[u].clinic_id = guard.user.clinic_id}>>,
                        "none")

FreshInviteIds == InviteIds \ {i.id : i \in invitations}

\* an invite that finds no earlier invitation
ExistingInviteNone(Inv, email, clinicId) == {}

\* SELECT id FROM invitations WHERE email = $1 AND clinic_id = $2 AND status = 'pending'
ExistingInvite(Inv, email, clinicId) ==
    {i \in Inv : i.email = email /\ i.clinic_id = clinicId /\ i.status = "pending"}

\* POST /api/users/invite; mailFails: sendEmail throws
Invite(email, role, mailFails) ==
    LET arg == <<email, role, mailFails>>
        mail == NormalizeEmail(email)
        existingUser == {u \in DOMAIN users :
                            users[u].email = mail /\ users[u].clinic_id = guard.user.clinic_id}
        existingInvite == ExistingInvite(invitations, mail, guard.user.clinic_id)
        id == CHOOSE x \in FreshInviteIds : \A y \in FreshInviteIds : x <= y
        row == [id |-> id, email |-> mail, clinic_id |-> guard.user.clinic_id,
                invited_by |-> guard.user.id, role |-> role, token |-> InviteToken(id),
                status |-> "pending", expires_at |-> now + InvitationExpiryHours,
                accepted_at |-> <<>>]
    IN  /\ Route("invite", TRUE)
        /\ IF ~Handles(TRUE)
           THEN UNCHANGED invitations
           ELSE IF ~IsEmail(email) \/ role \notin {"admin", "member"}
           THEN /\ res' = Answer("invite", 400, <<"validation">>, arg)
                /\ UNCHANGED invitations
           ELSE IF existingUser # {}
           THEN /\ res' = Answer("invite", 400, <<"User already exists in this clinic">>, arg)
                /\ UNCHANGED invitations
           ELSE IF existingInvite # {}
           THEN /\ res' = Answer("invite", 400, <<"Invitation already sent to this email">>, arg)
                /\ UNCHANGED invitations
           ELSE /\ FreshInviteIds # {}
                /\ invitations' = invitations \cup {row}
                /\ res' = Answer("invite", IF mailFails THEN 500 ELSE 200, <<>>, arg)

\* GET /api/users/invitations
ListInvitations ==
    /\ Route("listInvitations", TRUE)
    /\ Handles(TRUE) =>
          res' = Answer("listInvitations", 200,
                        <<{i \in invitations : i.clinic_id = guard.user.clinic_id}>>,
                        "none")

\* DELETE /api/users/invitations/:id
CancelInvitation(id) ==
    LET rows == {i \in invitations : i.id = id /\ i.clinic_id = guard.user.clinic_id}
    IN  /\ Route("cancelInvitation", TRUE)
        /\ IF ~Handles(TRUE)
           THEN UNCHANGED invitations
           ELSE /\ invitations' = invitations \ rows
                /\ res' = Answer("cancelInvitation", IF rows = {} THEN 404 ELSE 200,
                                 <<>>, id)

\* an UPDATE that also writes the role
SetActiveDemotes(U, id, clinicId, active) ==
    [u \in DOMAIN U |->
        IF u = UuidIn(id) /\ U[u].clinic_id = clinicId
        THEN [U[u] EXCEPT !.is_active = active, !.role = "member"] ELSE U[u]]

\* an UPDATE without its clinic_id condition
SetActiveAnyClinic(U, id, clinicId, active) ==
    [u \in DOMAIN U |->
        IF u = UuidIn(id) THEN [U[u] EXCEPT !.is_active = active] ELSE U[u]]

\* UPDATE users SET is_active = $active WHERE id = $1 AND clinic_id = $2
SetActive(U, id, clinicId, active) ==
    [u \in DOMAIN U |->
        IF u = UuidIn(id) /\ U[u].clinic_id = clinicId
        THEN [U[u] EXCEPT !.is_active = active] ELSE U[u]]

\* result.rowCount of that UPDATE
RowCount(U, id, clinicId) ==
    Cardinality({u \in DOMAIN U : u = UuidIn(id) /\ U[u].clinic_id = clinicId})

\* PUT /api/users/:id/deactivate
Deactivate(id) ==
    /\ Route("deactivate", TRUE)
    /\ IF ~Handles(TRUE)
       THEN UNCHANGED users
       ELSE IF id = guard.user.id
       THEN /\ res' = Answer("deactivate", 400, <<>>, id)
            /\ UNCHANGED users
       ELSE /\ users' = SetActive(users, id, guard.user.clinic_id, FALSE)
            /\ res' = Answer("deactivate",
                             IF RowCount(users, id, guard.user.clinic_id) = 0
                             THEN 404 ELSE 200, <<>>, id)

\* PUT /api/users/:id/activate
Activate(id) ==
    /\ Route("activate", TRUE)
    /\ IF ~Handles(TRUE)
       THEN UNCHANGED users
       ELSE /\ users' = SetActive(users, id, guard.user.clinic_id, TRUE)
            /\ res' = Answer("activate",
                             IF RowCount(users, id, guard.user.clinic_id) = 0
                             THEN 404 ELSE 200, <<>>, id)

\* INSERT INTO global_goals (clinic_id): the column defaults of the schema
DefaultGoals(clinicId) ==
    [clinic_id |-> clinicId, revenue_goal |-> 100000, profit_margin_goal |-> 30,
     capacity_goal |-> 80]

\* bodies of PUT /api/goals; the second leaves capacityGoal out
GoalBodies ==
    {[revenueGoal |-> 120000, profitMarginGoal |-> 35, capacityGoal |-> 85],
     [revenueGoal |-> 120000, profitMarginGoal |-> 35]}

\* GET /api/goals
GetGoals ==
    LET rows == {g \in global_goals : g.clinic_id = guard.user.clinic_id}
    IN  /\ Route("getGoals", FALSE)
        /\ IF rows = {}
           THEN /\ global_goals' = global_goals \cup {DefaultGoals(guard.user.clinic_id)}
                /\ res' = Answer("getGoals", 200, <<DefaultGoals(guard.user.clinic_id)>>,
                                 "none")
           ELSE /\ res' = Answer("getGoals", 200, <<CHOOSE g \in rows : TRUE>>, "none")
                /\ UNCHANGED global_goals

\* UPDATE global_goals SET ... WHERE clinic_id = $4
SetGoals(G, clinicId, body) ==
    {IF g.clinic_id = clinicId
     THEN [g EXCEPT !.revenue_goal = AsText(body, "revenueGoal"),
                    !.profit_margin_goal = AsText(body, "profitMarginGoal"),
                    !.capacity_goal = AsText(body, "capacityGoal")]
     ELSE g : g \in G}

\* PUT /api/goals
UpdateGoals(body) ==
    LET after == SetGoals(global_goals, guard.user.clinic_id, body)
    IN  /\ Route("updateGoals", TRUE)
        /\ IF ~Handles(TRUE)
           THEN UNCHANGED global_goals
           ELSE /\ global_goals' = after
                /\ res' = Answer("updateGoals", 200,
                                 <<{g \in after : g.clinic_id = guard.user.clinic_id}>>,
                                 body)

\* the clock advances by a session's length
Tick ==
    /\ guard = NoGuard
    /\ now + SessionTimeout <= MaxClock
    /\ now' = now + SessionTimeout
    /\ res' = NoResp
    /\ UNCHANGED guard

\* a token whose payload was edited after it was signed
Tamper(token) ==
    [token EXCEPT !.role = "admin", !.exp = token.exp + SessionTimeout]

\* the Authorization headers clients send
GuardHeaders ==
    {NoHeader, Bearer(MalformedToken)}
        \cup {Bearer(t) : t \in tokens}
        \cup {Basic(t) : t \in tokens}
        \cup {Bearer(Tamper(t)) : t \in tokens}

LoginEmails == {"a1@x", "a2@x", "N@x", "bad"}
Passwords == {"pw1", "pw2", ""}
InviteEmails == {"a2@x", "N@x", "bad"}
InviteRoles == {"admin", "member", "owner"}

\* the ids of users as clients write them in a path
UserIdTexts == {"u1", "u2", "u3", "U1"}

\* the second user of clinic A is an admin or a member; the admin of clinic B
\* has invited n@x
InitGuard ==
    /\ now = 0
    /\ \E role \in {"admin", "member"} :
          users = [InitUsers EXCEPT !["u2"].role = role]
    /\ tokens = {}
    /\ db = EmptyDb
    /\ tx = EmptyBag
    /\ invitations = {Invited(1, "n@x", "B", "u3", "member")}
    /\ global_goals = {}
    /\ guard = NoGuard
    /\ password_reset_tokens = {}
    /\ clinics = Clinics
    /\ res = NoResp

NextGuard ==
    \/ \E email \in LoginEmails, password \in Passwords :
          Login(email, password) /\ UNCHANGED <<now, db, tx, password_reset_tokens, clinics, invitations, global_goals>>
    \/ \E hdr \in GuardHeaders :
          Authenticate(hdr)
              /\ UNCHANGED <<now, users, tokens, db, tx, password_reset_tokens, clinics, invitations, global_goals>>
    \/ ListUsers /\ UNCHANGED <<now, users, tokens, db, tx, password_reset_tokens, clinics, invitations, global_goals>>
    \/ \E email \in InviteEmails, role \in InviteRoles, mailFails \in BOOLEAN :
          Invite(email, role, mailFails)
              /\ UNCHANGED <<now, users, tokens, db, tx, password_reset_tokens, clinics, global_goals>>
    \/ ListInvitations /\ UNCHANGED <<now, users, tokens, db, tx, password_reset_tokens, clinics, invitations, global_goals>>
    \/ \E id \in InviteIds :
          CancelInvitation(id) /\ UNCHANGED <<now, users, tokens, db, tx, password_reset_tokens, clinics, global_goals>>
    \/ \E id \in UserIdTexts :
          Deactivate(id) /\ UNCHANGED <<now, tokens, db, tx, password_reset_tokens, clinics, invitations, global_goals>>
    \/ \E id \in UserIdTexts :
          Activate(id) /\ UNCHANGED <<now, tokens, db, tx, password_reset_tokens, clinics, invitations, global_goals>>
    \/ GetGoals /\ UNCHANGED <<now, users, tokens, db, tx, password_reset_tokens, clinics, invitations>>
    \/ \E body \in GoalBodies :
          UpdateGoals(body) /\ UNCHANGED <<now, users, tokens, db, tx, password_reset_tokens, clinics, invitations>>
    \/ Tick /\ UNCHANGED <<users, tokens, db, tx, password_reset_tokens, clinics, invitations, global_goals>>

SpecGuard == InitGuard /\ [][NextGuard]_vars

----------------------------------------------------------------------------
(* Login and password reset (routes/auth.js)                               *)

\* the latest hour of the clock while resets are followed
MaxHours == 1
\* reset tokens crypto.randomBytes can hand out
MaxResetTokens == 2

PasswordResetExpiryHours == 1

\* crypto.randomBytes(32).toString('hex') of the n-th reset request
ResetToken(n) == <<"r1", "r2", "r3", "r4">>[n]

FreshResetTokens ==
    {ResetToken(n) : n \in 1..MaxResetTokens} \ {r.token : r \in password_reset_tokens}

\* the message of POST /api/auth/forgot-password
ResetSent == "If that email exists, a password reset link has been sent"

\* POST /api/auth/forgot-password; mailFails: sendEmail throws
ForgotPassword(email, mailFails) ==
    LET u == LoginUser(users, email)
        req == GuardReq(NoHeader, <<email, mailFails>>)
        n == CHOOSE x \in 1..MaxResetTokens :
                /\ ResetToken(x) \in FreshResetTokens
                /\ \A y \in 1..MaxResetTokens :
                      ResetToken(y) \in FreshResetTokens => x <= y
        row == [user_id |-> u, token |-> ResetToken(n),
                expires_at |-> now + PasswordResetExpiryHours, used |-> FALSE]
    IN  IF ~IsEmail(email)
        THEN /\ res' = Resp("forgotPassword", "none", "none", 400, <<"validation">>, req)
             /\ UNCHANGED password_reset_tokens
        ELSE IF u = "none"
        THEN /\ res' = Resp("forgotPassword", "none", "none", 200, <<ResetSent>>, req)
             /\ UNCHANGED password_reset_tokens
        ELSE /\ FreshResetTokens # {}
             /\ password_reset_tokens' = password_reset_tokens \cup {row}
             /\ res' = IF mailFails
                       THEN Resp("forgotPassword", "none", "none", 500,
                                 <<"Failed to process request">>, req)
                       ELSE Resp("forgotPassword", "none", "none", 200, <<ResetSent>>, req)

\* body('password').isLength({ min: 8 })
IsLengthMin8(password) == Len(password) >= 8

\* a SELECT that looks at the token only
ResetMatchesAnyState(r, token, t) == r.token = token

\* a SELECT that forgets the used flag
ResetMatchesUsed(r, token, t) == r.token = token /\ r.expires_at > t

\* WHERE token = $1 AND expires_at > NOW() AND used = false
ResetMatches(r, token, t) ==
    r.token = token /\ r.expires_at > t /\ ~r.used

\* a reset-password request between its SELECT and its COMMIT: the body,
\* the row it selected and the hour of the SELECT
ResetRequest(token, newPassword, row, t) ==
    [kind |-> "reset", token |-> token, password |-> newPassword, row |-> row,
     at |-> t]

NoTokenRow == [user_id |-> "none", token |-> "", expires_at |-> 0, used |-> FALSE]

\* POST /api/auth/reset-password: validation, BEGIN and the SELECT
ResetBegin(token, newPassword) ==
    LET rows == {r \in password_reset_tokens : ResetMatches(r, token, now)}
        row == CHOOSE r \in rows : TRUE
        bad == ResetRequest(token, newPassword, NoTokenRow, now)
    IN  IF token = "" \/ ~IsLengthMin8(newPassword)
        THEN /\ res' = Resp("resetPassword", "none", "none", 400, <<"validation">>, bad)
             /\ UNCHANGED tx
        ELSE /\ BagCardinality(tx) < MaxConn
             /\ IF rows = {}
                THEN /\ res' = Resp("resetPassword", "none", "none", 400,
                                    <<"Invalid or expired reset token">>, bad)
                     /\ UNCHANGED tx
                ELSE /\ tx' = tx (+) One(ResetRequest(token, newPassword, row, now))
                     /\ res' = NoResp

\* the identity tables a transaction of routes/auth.js writes
Identity ==
    [users |-> users, password_reset_tokens |-> password_reset_tokens,
     invitations |-> invitations, clinics |-> clinics, global_goals |-> global_goals]

\* a catch block that leaves the statements already run in place
AuthRollbackKeeps(I, written) == written

\* client.query('ROLLBACK'): the tables as they were at BEGIN
AuthRollback(I, written) == I

\* client.query('COMMIT')
AuthCommit(I, written) == written

\* the tables of the identity store after a transaction ended
SetIdentity(I) ==
    /\ users' = I.users
    /\ password_reset_tokens' = I.password_reset_tokens
    /\ invitations' = I.invitations
    /\ clinics' = I.clinics
    /\ global_goals' = I.global_goals

\* UPDATE users SET password_hash = $1 WHERE id = $2
SetPassword(I, userId, password) ==
    [I EXCEPT !.users =
        [u \in DOMAIN I.users |->
            IF u = userId
            THEN [I.users[u] EXCEPT !.password_hash = bcryptHash(password)]
            ELSE I.users[u]]]

\* an UPDATE that marks every token of the table
MarkUsedAll(I, token) ==
    [I EXCEPT !.password_reset_tokens =
        {[r EXCEPT !.used = TRUE] : r \in I.password_reset_tokens}]

\* UPDATE password_reset_tokens SET used = true WHERE token = $1
MarkUsed(I, token) ==
    [I EXCEPT !.password_reset_tokens =
        {IF r.token = token THEN [r EXCEPT !.used = TRUE] ELSE r :
            r \in I.password_reset_tokens}]

\* the two UPDATEs and the COMMIT of reset-password; failAt is the statement
\* that fails (3: the COMMIT), 0 when none does
ResetCommit(t, failAt) ==
    LET w1 == SetPassword(Identity, t.row.user_id, t.password)
        w2 == MarkUsed(w1, t.token)
        written == <<Identity, w1, w2>>
    IN  /\ t.kind = "reset"
        /\ tx' = tx (-) One(t)
        /\ IF failAt = 0
           THEN /\ SetIdentity(AuthCommit(Identity, w2))
                /\ res' = Resp("resetPassword", t.row.user_id, "none", 200,
                               <<"Password reset successfully">>, t)
           ELSE /\ SetIdentity(AuthRollback(Identity, written[failAt]))
                /\ res' = Resp("resetPassword", t.row.user_id, "none", 500,
                               <<"Failed to reset password">>, t)

\* an hour passes
Hour ==
    /\ now + PasswordResetExpiryHours <= MaxHours
    /\ now' = now + PasswordResetExpiryHours
    /\ res' = NoResp

AuthEmails == {"a2@x", "N@x", "bad"}
AuthPasswords == {"pw2", "password9", ""}
ResetInputs == {"r1", "r2", "zz", ""}
NewPasswords == {"password9", "passw0rd8", "short"}

\* the second user of clinic A is active or was deactivated
InitAuth ==
    /\ now = 0
    /\ \E active \in BOOLEAN :
          users = [InitUsers EXCEPT !["u2"].is_active = active]
    /\ tokens = {}
    /\ db = EmptyDb
    /\ tx = EmptyBag
    /\ invitations = {}
    /\ global_goals = {}
    /\ guard = NoGuard
    /\ password_reset_tokens = {}
    /\ clinics = Clinics
    /\ res = NoResp

NextAuth ==
    \/ \E email \in AuthEmails, password \in AuthPasswords :
          Login(email, password)
              /\ UNCHANGED <<now, db, tx, invitations, global_goals,
                             password_reset_tokens, clinics>>
    \/ \E email \in AuthEmails, mailFails \in BOOLEAN :
          ForgotPassword(email, mailFails)
              /\ UNCHANGED <<now, users, tokens, db, tx, invitations, global_goals,
                             guard, clinics>>
    \/ \E token \in ResetInputs, newPassword \in NewPasswords :
          ResetBegin(token, newPassword)
              /\ UNCHANGED <<now, users, tokens, db, invitations, global_goals,
                             guard, password_reset_tokens, clinics>>
    \/ \E t \in InFlight, failAt \in 0..3 :
          ResetCommit(t, failAt) /\ UNCHANGED <<now, tokens, db, guard>>
    \/ Hour
          /\ UNCHANGED <<users, tokens, db, tx, invitations, global_goals, guard,
                         password_reset_tokens, clinics>>

SpecAuth == InitAuth /\ [][NextAuth]_vars

----------------------------------------------------------------------------
(* Accepting an invitation and signing up (routes/auth.js)                 *)

\* the latest hour of the clock while invitations are followed
MaxJoinHours == 72
\* users rows gen_random_uuid() can be asked for
MaxNewUsers == 2
\* clinics rows gen_random_uuid() can be asked for
MaxNewClinics == 2

\* the id of the n-th user created
NewUserId(n) == <<"u4", "u5", "u6">>[n]

\* the id of the n-th clinic created
NewClinicId(n) == <<"C", "D", "E">>[n]

FreshUserIds(U) == {NewUserId(n) : n \in 1..MaxNewUsers} \ DOMAIN U

FreshClinicIds(ids) == {NewClinicId(n) : n \in 1..MaxNewClinics} \ ids

\* a users table without the unique index on email
EmailTakenNever(U, email) == FALSE

\* users.email UNIQUE: a row with this email exists
EmailTaken(U, email) == \E u \in DOMAIN U : U[u].email = email

\* a signup that does not look for the email
RegisteredNever(U, email) == FALSE

\* SELECT id FROM users WHERE email = $1 returns a row
Registered(U, email) == \E u \in DOMAIN U : U[u].email = email

\* INSERT INTO users (...): the table with the new row
InsertUser(I, id, email, role, clinicId, password) ==
    [I EXCEPT !.users =
        [u \in DOMAIN I.users \cup {id} |->
            IF u = id THEN UserRow(id, email, role, clinicId, password)
            ELSE I.users[u]]]

\* a SELECT that does not look at expires_at
InviteMatchesExpired(i, token, t) == i.token = token /\ i.status = "pending"

\* WHERE token = $1 AND status = 'pending' AND expires_at > NOW()
InviteMatches(i, token, t) ==
    i.token = token /\ i.status = "pending" /\ i.expires_at > t

\* the body of POST /api/auth/accept-invitation; role and clinicId are
\* fields a caller may add
AcceptBody(token, password, firstName) ==
    [token |-> token, password |-> password, firstName |-> firstName,
     role |-> "admin", clinicId |-> "B"]

\* the role and the clinic of the user accept-invitation creates, taken from
\* the body
RoleOfBody(inv, body) == [role |-> body.role, clinic_id |-> body.clinicId]

\* the role and the clinic of the user accept-invitation creates
RoleOfInvitation(inv, body) == [role |-> inv.role, clinic_id |-> inv.clinic_id]

NoInvitation ==
    [id |-> 0, email |-> "none", clinic_id |-> "none", invited_by |-> "none",
     role |-> "none", token |-> "", status |-> "none", expires_at |-> 0,
     accepted_at |-> <<>>]

\* a request of routes/auth.js between BEGIN and the end of its transaction:
\* the body, the invitation it selected, the hour of the SELECT and, once it
\* ended, the statement that failed
JoinRequest(kind, pc, body, inv, t) ==
    [kind |-> kind, pc |-> pc, body |-> body, inv |-> inv, at |-> t, failAt |-> 0]

\* POST /api/auth/accept-invitation: validation, BEGIN, SELECT the invitation
AcceptBegin(body) ==
    LET rows == {i \in invitations : InviteMatches(i, body.token, now)}
        inv == CHOOSE i \in rows : TRUE
        bad == JoinRequest("accept", "begin", body, NoInvitation, now)
    IN  IF body.token = "" \/ ~IsLengthMin8(body.password) \/ body.firstName = ""
        THEN /\ res' = Resp("acceptInvitation", "none", "none", 400, <<"validation">>, bad)
             /\ UNCHANGED tx
        ELSE /\ BagCardinality(tx) < MaxConn
             /\ IF rows = {}
                THEN /\ res' = Resp("acceptInvitation", "none", "none", 400,
                                    <<"Invalid or expired invitation">>, bad)
                     /\ UNCHANGED tx
                ELSE /\ tx' = tx (+) One(JoinRequest("accept", "email", body, inv, now))
                     /\ res' = NoResp

\* "Check if email already has an account"
AcceptCheckEmail(t) ==
    /\ t.kind = "accept" /\ t.pc = "email"
    /\ IF Registered(users, t.inv.email)
       THEN /\ tx' = tx (-) One(t)
            /\ res' = Resp("acceptInvitation", "none", "none", 400,
                           <<"Email already registered">>, t)
       ELSE /\ tx' = (tx (-) One(t)) (+) One([t EXCEPT !.pc = "insert"])
            /\ res' = NoResp

\* UPDATE invitations SET status = 'accepted', accepted_at = NOW() WHERE id = $2
MarkAccepted(I, id, t) ==
    [I EXCEPT !.invitations =
        {IF i.id = id THEN [i EXCEPT !.status = "accepted", !.accepted_at = <<t>>]
         ELSE i : i \in I.invitations}]

\* a transaction that meets no unique index
FirstFailureInjected(failAt, k, taken) == failAt

\* the statement of a transaction that fails: the injected one, or the INSERT
\* INTO users (statement k) when the email is taken
FirstFailure(failAt, k, taken) ==
    IF taken /\ (failAt = 0 \/ failAt > k) THEN k ELSE failAt

\* INSERT the user, mark the invitation, COMMIT, then read the clinic name
\* and answer; failAt is the statement that fails (3: COMMIT, 4: the SELECT
\* after it), 0 when none does
AcceptCommit(t, failAt) ==
    LET f == FirstFailure(failAt, 1, EmailTaken(users, t.inv.email))
        as == RoleOfInvitation(t.inv, t.body)
        id == CHOOSE x \in FreshUserIds(users) : TRUE
        w1 == InsertUser(Identity, id, t.inv.email, as.role, as.clinic_id,
                         t.body.password)
        w2 == MarkAccepted(w1, t.inv.id, now)
        written == <<Identity, w1, w2>>
        done == [t EXCEPT !.pc = "done", !.failAt = f]
    IN  /\ t.kind = "accept" /\ t.pc = "insert"
        /\ f # 1 => FreshUserIds(users) # {}
        /\ tx' = tx (-) One(t)
        /\ IF f \in 1..3
           THEN /\ SetIdentity(AuthRollback(Identity, written[f]))
                /\ res' = Resp("acceptInvitation", "none", "none", 500,
                               <<"Failed to accept invitation">>, done)
                /\ UNCHANGED tokens
           ELSE /\ SetIdentity(AuthCommit(Identity, w2))
                /\ IF f = 4
                   THEN /\ res' = Resp("acceptInvitation", "none", "none", 500,
                                       <<"Failed to accept invitation">>, done)
                        /\ UNCHANGED tokens
                   ELSE /\ tokens' = tokens \cup {jwtSign(w2.users[id], now)}
                        /\ res' = Resp("acceptInvitation", id, "none", 201,
                                       <<jwtSign(w2.users[id], now)>>, done)

\* the body of POST /api/auth/signup
SignupBody(email, password, firstName) ==
    [email |-> email, password |-> password, firstName |-> firstName]

\* POST /api/auth/signup: validation, BEGIN, "Check if email already exists"
SignupBegin(body) ==
    LET mail == NormalizeEmail(body.email)
        t == JoinRequest("signup", "insert", [body EXCEPT !.email = mail],
                         NoInvitation, now)
    IN  IF ~IsEmail(body.email) \/ ~IsLengthMin8(body.password) \/ body.firstName = ""
        THEN /\ res' = Resp("signup", "none", "none", 400, <<"validation">>,
                            [t EXCEPT !.pc = "begin"])
             /\ UNCHANGED tx
        ELSE /\ BagCardinality(tx) < MaxConn
             /\ IF Registered(users, mail)
                THEN /\ res' = Resp("signup", "none", "none", 400,
                                    <<"Email already registered">>,
                                    [t EXCEPT !.pc = "begin"])
                     /\ UNCHANGED tx
                ELSE /\ tx' = tx (+) One(t)
                     /\ res' = NoResp

\* INSERT INTO clinics
InsertClinic(I, id) == [I EXCEPT !.clinics = I.clinics \cup {id}]

\* a signup that inserts no goals row
InsertGoalsNever(I, clinicId) == I

\* INSERT INTO global_goals (clinic_id)
InsertGoals(I, clinicId) ==
    [I EXCEPT !.global_goals = I.global_goals \cup {DefaultGoals(clinicId)}]

\* INSERT the clinic, the admin user and the goals, COMMIT and answer; failAt
\* is the statement that fails (4: COMMIT), 0 when none does
SignupCommit(t, failAt) ==
    LET f == FirstFailure(failAt, 2, EmailTaken(users, t.body.email))
        clinicId == CHOOSE x \in FreshClinicIds(clinics) : TRUE
        id == CHOOSE x \in FreshUserIds(users) : TRUE
        w1 == InsertClinic(Identity, clinicId)
        w2 == InsertUser(w1, id, t.body.email, "admin", clinicId, t.body.password)
        w3 == InsertGoals(w2, clinicId)
        written == <<Identity, w1, w2, w3>>
        done == [t EXCEPT !.pc = "done", !.failAt = f]
    IN  /\ t.kind = "signup" /\ t.pc = "insert"
        /\ FreshClinicIds(clinics) # {}
        /\ f \notin {1, 2} => FreshUserIds(users) # {}
        /\ tx' = tx (-) One(t)
        /\ IF f # 0
           THEN /\ SetIdentity(AuthRollback(Identity, written[f]))
                /\ res' = Resp("signup", "none", "none", 500,
                               <<"Failed to create account">>, done)
                /\ UNCHANGED tokens
           ELSE /\ SetIdentity(AuthCommit(Identity, w3))
                /\ tokens' = tokens \cup {jwtSign(w3.users[id], now)}
                /\ res' = Resp("signup", id, "none", 201,
                               <<jwtSign(w3.users[id], now)>>, done)

\* the invitations expire
Expire ==
    /\ now + InvitationExpiryHours <= MaxJoinHours
    /\ now' = now + InvitationExpiryHours
    /\ res' = NoResp

AcceptTokens == {"i1", "i2", "zz", ""}
JoinPasswords == {"password9", "short"}
JoinNames == {"Ann", ""}
SignupEmails == {"N@x", "a2@x", "bad"}

\* both clinics were created by signup and have invited n@x, as a member of A
\* and as an admin of B
InitJoin ==
    /\ now = 0
    /\ users = InitUsers
    /\ tokens = {}
    /\ db = EmptyDb
    /\ tx = EmptyBag
    /\ invitations = {Invited(1, "n@x", "A", "u1", "member"),
                      Invited(2, "n@x", "B", "u3", "admin")}
    /\ global_goals = {DefaultGoals(c) : c \in Clinics}
    /\ guard = NoGuard
    /\ password_reset_tokens = {}
    /\ clinics = Clinics
    /\ res = NoResp

NextJoin ==
    \/ \E token \in AcceptTokens, password \in JoinPasswords, firstName \in JoinNames :
          AcceptBegin(AcceptBody(token, password, firstName))
              /\ UNCHANGED <<now, users, tokens, db, invitations, global_goals,
                             guard, password_reset_tokens, clinics>>
    \/ \E t \in InFlight :
          AcceptCheckEmail(t)
              /\ UNCHANGED <<now, users, tokens, db, invitations, global_goals,
                             guard, password_reset_tokens, clinics>>
    \/ \E t \in InFlight, failAt \in 0..4 :
          AcceptCommit(t, failAt) /\ UNCHANGED <<now, db, guard>>
    \/ \E email \in SignupEmails, password \in JoinPasswords, firstName \in JoinNames :
          SignupBegin(SignupBody(email, password, firstName))
              /\ UNCHANGED <<now, users, tokens, db, invitations, global_goals,
                             guard, password_reset_tokens, clinics>>
    \/ \E t \in InFlight, failAt \in 0..4 :
          SignupCommit(t, failAt) /\ UNCHANGED <<now, db, guard>>
    \/ Expire
          /\ UNCHANGED <<users, tokens, db, tx, invitations, global_goals, guard,
                         password_reset_tokens, clinics>>

SpecJoin == InitJoin /\ [][NextJoin]_vars

----------------------------------------------------------------------------
(* Concurrent requests of the team routes (routes/users.js): each request  *)
(* passes the middleware and sends its statements on its own.              *)

\* the guard of an admin route: authenticate, then requireAdmin
AdminGuard(hdr) ==
    LET a == authenticate(hdr, users, now)
    IN  IF a.status = 200 /\ ~requireAdmin(a.user)
        THEN [status |-> 403, error |-> "Admin access required", user |-> NoUser]
        ELSE a

\* a request of an admin route between the middleware and its last
\* statement: req.user, the Authorization header and the parameter or body
TeamRequest(op, reqUser, hdr, arg) ==
    [kind |-> "team", op |-> op, user |-> reqUser, hdr |-> hdr, arg |-> arg]

\* the middleware refused the request
Refused(op, g, hdr, arg) ==
    /\ res' = Resp(op, "none", "none", g.status, <<g.error>>, GuardReq(hdr, arg))
    /\ UNCHANGED tx

\* PUT /api/users/:id/deactivate: the middleware and the comparison of the
\* id with req.user.id
DeactivateBegin(hdr, id) ==
    LET g == AdminGuard(hdr)
    IN  IF g.status # 200
        THEN Refused("deactivate", g, hdr, id)
        ELSE IF id = g.user.id
        THEN /\ res' = Resp("deactivate", g.user.id, "none", 400, <<>>,
                            GuardReq(hdr, id))
             /\ UNCHANGED tx
        ELSE /\ BagCardinality(tx) < MaxConn
             /\ tx' = tx (+) One(TeamRequest("deactivate", g.user, hdr, id))
             /\ res' = NoResp

\* the UPDATE of deactivate and its answer
DeactivateUpdate(t) ==
    /\ t.kind = "team" /\ t.op = "deactivate"
    /\ users' = SetActive(users, t.arg, t.user.clinic_id, FALSE)
    /\ tx' = tx (-) One(t)
    /\ res' = Resp("deactivate", t.user.id, "none",
                   IF RowCount(users, t.arg, t.user.clinic_id) = 0 THEN 404 ELSE 200,
                   <<>>, t)

\* POST /api/users/invite: the middleware, the validators and the two SELECTs
InviteBegin(hdr, email, role) ==
    LET g == AdminGuard(hdr)
        arg == <<email, role>>
        mail == NormalizeEmail(email)
        existingUser == {u \in DOMAIN users :
                            users[u].email = mail /\ users[u].clinic_id = g.user.clinic_id}
        existingInvite == ExistingInvite(invitations, mail, g.user.clinic_id)
        error == IF ~IsEmail(email) \/ role \notin {"admin", "member"}
                 THEN "validation"
                 ELSE IF existingUser # {}
                 THEN "User already exists in this clinic"
                 ELSE IF existingInvite # {}
                 THEN "Invitation already sent to this email"
                 ELSE ""
    IN  IF g.status # 200
        THEN Refused("invite", g, hdr, arg)
        ELSE IF error # ""
        THEN /\ res' = Resp("invite", g.user.id, "none", 400, <<error>>,
                            GuardReq(hdr, arg))
             /\ UNCHANGED tx
        ELSE /\ BagCardinality(tx) < MaxConn
             /\ tx' = tx (+) One(TeamRequest("invite", g.user, hdr, <<mail, role>>))
             /\ res' = NoResp

\* the INSERT INTO invitations of invite and sendEmail; mailFails: it throws
InviteInsert(t, mailFails) ==
    LET id == CHOOSE x \in FreshInviteIds : \A y \in FreshInviteIds : x <= y
        row == [id |-> id, email |-> t.arg[1], clinic_id |-> t.user.clinic_id,
                invited_by |-> t.user.id, role |-> t.arg[2], token |-> InviteToken(id),
                status |-> "pending", expires_at |-> now + InvitationExpiryHours,
                accepted_at |-> <<>>]
    IN  /\ t.kind = "team" /\ t.op = "invite"
        /\ FreshInviteIds # {}
        /\ invitations' = invitations \cup {row}
        /\ tx' = tx (-) One(t)
        /\ res' = Resp("invite", t.user.id, "none", IF mailFails THEN 500 ELSE 200,
                       <<>>, t)

\* DELETE /api/users/invitations/:id: the middleware and the one DELETE
CancelRequest(hdr, id) ==
    LET g == AdminGuard(hdr)
        rows == {i \in invitations : i.id = id /\ i.clinic_id = g.user.clinic_id}
    IN  IF g.status # 200
        THEN /\ Refused("cancelInvitation", g, hdr, id)
             /\ UNCHANGED invitations
        ELSE /\ invitations' = invitations \ rows
             /\ res' = Resp("cancelInvitation", g.user.id, "none",
                            IF rows = {} THEN 404 ELSE 200, <<>>, GuardReq(hdr, id))
             /\ UNCHANGED tx

\* the second admin of clinic A joined by the invitation of the first
Accepted(id, email, clinicId, userId, role) ==
    [Invited(id, email, clinicId, userId, role) EXCEPT
        !.status = "accepted", !.accepted_at = <<0>>]

TeamHeaders == {Bearer(t) : t \in tokens}
TeamLogins == {<<"a1@x", "pw1">>, <<"a2@x", "pw2">>}
TeamInviteEmails == {"N@x", "b1@x", "bad"}
TeamUserIds == {"u1", "u2"}

\* clinic A has two admins, the second joined by the invitation of the first
InitTeam ==
    /\ now = 0
    /\ users = [InitUsers EXCEPT !["u2"].role = "admin"]
    /\ tokens = {}
    /\ db = EmptyDb
    /\ tx = EmptyBag
    /\ invitations = {Accepted(1, "a2@x", "A", "u1", "admin")}
    /\ global_goals = {DefaultGoals(c) : c \in Clinics}
    /\ guard = NoGuard
    /\ password_reset_tokens = {}
    /\ clinics = Clinics
    /\ res = NoResp

\* the two admins of clinic A log in and deactivate users of the clinic
NextTeam ==
    \/ \E l \in TeamLogins :
          Login(l[1], l[2])
              /\ UNCHANGED <<now, db, tx, invitations, global_goals,
                             password_reset_tokens, clinics>>
    \/ \E hdr \in TeamHeaders, id \in TeamUserIds :
          DeactivateBegin(hdr, id)
              /\ UNCHANGED <<now, users, tokens, db, invitations, global_goals,
                             guard, password_reset_tokens, clinics>>
    \/ \E t \in InFlight :
          DeactivateUpdate(t)
              /\ UNCHANGED <<now, tokens, db, invitations, global_goals, guard,
                             password_reset_tokens, clinics>>

SpecTeam == InitTeam /\ [][NextTeam]_vars

\* the first admin of clinic A logs in, invites and cancels from two
\* clients, and the invitations expire
NextInvite ==
    \/ Login("a1@x", "pw1")
          /\ UNCHANGED <<now, db, tx, invitations, global_goals,
                         password_reset_tokens, clinics>>
    \/ \E hdr \in TeamHeaders, email \in TeamInviteEmails :
          InviteBegin(hdr, email, "member")
              /\ UNCHANGED <<now, users, tokens, db, invitations, global_goals,
                             guard, password_reset_tokens, clinics>>
    \/ \E t \in InFlight, mailFails \in BOOLEAN :
          InviteInsert(t, mailFails)
              /\ UNCHANGED <<now, users, tokens, db, global_goals, guard,
                             password_reset_tokens, clinics>>
    \/ \E hdr \in TeamHeaders, id \in InviteIds :
          CancelRequest(hdr, id)
              /\ UNCHANGED <<now, users, tokens, db, global_goals, guard,
                             password_reset_tokens, clinics>>
    \/ Expire
          /\ UNCHANGED <<users, tokens, db, tx, invitations, global_goals, guard,
                         password_reset_tokens, clinics>>

SpecInvite == InitTeam /\ [][NextInvite]_vars

----------------------------------------------------------------------------
(* Concurrent requests for the goals (routes/goals.js)                     *)

\* a GET /api/goals of req.user between its SELECT and its INSERT
GoalsRequest(user, pc) == [kind |-> "goals", user |-> user, pc |-> pc]

\* GET /api/goals: the SELECT; without a row the handler goes on to INSERT
GetGoalsSelect(u) ==
    LET rows == {g \in global_goals : g.clinic_id = users[u].clinic_id}
    IN  /\ users[u].is_active
        /\ IF rows # {}
           THEN /\ res' = Resp("getGoals", u, "none", 200, <<CHOOSE g \in rows : TRUE>>,
                               GoalsRequest(users[u], "select"))
                /\ UNCHANGED tx
           ELSE /\ BagCardinality(tx) < MaxConn
                /\ tx' = tx (+) One(GoalsRequest(users[u], "insert"))
                /\ res' = NoResp

\* global_goals UNIQUE(clinic_id): the clinic has a row
GoalsTaken(G, clinicId) == \E g \in G : g.clinic_id = clinicId

\* GET /api/goals: INSERT INTO global_goals (clinic_id) RETURNING *, or the
\* catch block when the INSERT throws
GetGoalsInsert(t) ==
    /\ t.kind = "goals"
    /\ tx' = tx (-) One(t)
    /\ IF GoalsTaken(global_goals, t.user.clinic_id)
       THEN /\ res' = Resp("getGoals", t.user.id, "none", 500,
                           <<"Failed to fetch goals">>, t)
            /\ UNCHANGED global_goals
       ELSE /\ global_goals' = global_goals \cup {DefaultGoals(t.user.clinic_id)}
            /\ res' = Resp("getGoals", t.user.id, "none", 200,
                           <<DefaultGoals(t.user.clinic_id)>>, t)

\* PUT /api/goals of req.user
PutGoals(u, body) ==
    LET after == SetGoals(global_goals, users[u].clinic_id, body)
    IN  /\ users[u].is_active
        /\ IF ~requireAdmin(users[u])
           THEN /\ res' = Resp("updateGoals", u, "none", 403, <<"Admin access required">>,
                               GoalsRequest(users[u], "update"))
                /\ UNCHANGED global_goals
           ELSE /\ global_goals' = after
                /\ res' = Resp("updateGoals", u, "none", 200,
                               <<{g \in after : g.clinic_id = users[u].clinic_id}>>,
                               GoalsRequest(users[u], "update"))

\* two clinics whose goals rows have not been created
InitGoals ==
    /\ now = 0
    /\ users = InitUsers
    /\ tokens = {}
    /\ db = EmptyDb
    /\ tx = EmptyBag
    /\ invitations = {}
    /\ global_goals = {}
    /\ guard = NoGuard
    /\ password_reset_tokens = {}
    /\ clinics = Clinics
    /\ res = NoResp

NextGoals ==
    \/ \E u \in DOMAIN users :
          GetGoalsSelect(u)
              /\ UNCHANGED <<now, users, tokens, db, invitations, global_goals, guard,
                             password_reset_tokens, clinics>>
    \/ \E t \in InFlight :
          GetGoalsInsert(t)
              /\ UNCHANGED <<now, users, tokens, db, invitations, guard,
                             password_reset_tokens, clinics>>
    \/ \E u \in DOMAIN users, body \in GoalBodies :
          PutGoals(u, body)
              /\ UNCHANGED <<now, users, tokens, db, tx, invitations, guard,
                             password_reset_tokens, clinics>>

SpecGoals == InitGoals /\ [][NextGoals]_vars

----------------------------------------------------------------------------
(* The score of a month (src/utils/calculations.js of the frontend)        *)

\* JavaScript numbers are modelled as exact fractions n / d with d > 0
RECURSIVE Gcd(_, _)
Gcd(a, b) == IF b = 0 THEN a ELSE Gcd(b, a % b)

Abs(x) == IF x < 0 THEN 0 - x ELSE x

\* the fraction n / d in lowest terms, d # 0
Q(n, d) ==
    LET g == Gcd(Abs(n), Abs(d))
        sign == IF d < 0 THEN 0 - 1 ELSE 1
    IN  [n |-> sign * (n \div g), d |-> sign * (d \div g)]

QInt(x) == [n |-> x, d |-> 1]
QAdd(a, b) == Q(a.n * b.d + b.n * a.d, a.d * b.d)
QMul(a, b) == Q(a.n * b.n, a.d * b.d)
QDiv(a, b) == Q(a.n * b.d, a.d * b.n)
QLe(a, b) == a.n * b.d <= b.n * a.d
QLt(a, b) == a.n * b.d < b.n * a.d

\* Math.min
MathMin(a, b) == IF QLe(a, b) THEN a ELSE b

\* a goal as the caller holds it: a number, the text of a number (a DECIMAL
\* column as the driver returns it) or undefined
JsNum(v) == [t |-> "num", v |-> v]
JsText(v) == [t |-> "str", v |-> v]
JsUndefined == [t |-> "undef", v |-> 0]

\* ToBoolean: 0 and undefined are falsy, a non-empty text is truthy
Truthy(x) == (x.t = "num" /\ x.v # 0) \/ x.t = "str"

\* x || d
OrDefault(x, d) == IF Truthy(x) THEN x ELSE JsNum(d)

\* parseFloat of a number or of the text of a number
parseFloat(x) == QInt(x.v)

\* items.reduce((sum, item) => sum + parseFloat(item[key] || 0), 0); the
\* amounts are numbers, for which parseFloat(x || 0) is x
RECURSIVE reduceSum(_, _)
reduceSum(items, key) ==
    IF items = <<>> THEN 0 ELSE Head(items)[key] + reduceSum(Tail(items), key)

calculateMonth(monthData) ==
    LET totalPayroll == reduceSum(monthData.payroll, "amount")
        totalAdditionalExpenses == reduceSum(monthData.expenses, "amount")
        totalOperatingExpenses == monthData.operatingExpenses + totalAdditionalExpenses
        totalProviderHours == reduceSum(monthData.services, "providerHours")
        totalBookedHours == reduceSum(monthData.services, "bookedHours")
        profit == monthData.revenue - totalOperatingExpenses - totalPayroll
                      - monthData.cogs
    IN  [revenue |-> QInt(monthData.revenue),
         totalOperatingExpenses |-> QInt(totalOperatingExpenses),
         totalPayroll |-> QInt(totalPayroll),
         totalAdditionalExpenses |-> QInt(totalAdditionalExpenses),
         cogs |-> QInt(monthData.cogs),
         profit |-> QInt(profit),
         profitMargin |->
            IF monthData.revenue > 0 THEN Q(profit * 100, monthData.revenue)
            ELSE QInt(0),
         capacity |->
            IF totalProviderHours > 0 THEN Q(totalBookedHours, totalProviderHours)
            ELSE QInt(0),
         totalProviderHours |-> QInt(totalProviderHours),
         totalBookedHours |-> QInt(totalBookedHours),
         clientValue |->
            IF monthData.totalClients > 0
            THEN Q(monthData.revenue, monthData.totalClients) ELSE QInt(0),
         totalClients |-> QInt(monthData.totalClients),
         websiteVisits |-> QInt(monthData.websiteVisits),
         newClientVisits |-> QInt(monthData.newClientVisits),
         clientsConvertingToTreatment |-> QInt(monthData.clientsConvertingToTreatment),
         websiteConversionRate |-> Q(monthData.websiteConversionRate, 100),
         treatmentPlanConversionRate |->
            IF monthData.newClientVisits > 0
            THEN Q(monthData.clientsConvertingToTreatment, monthData.newClientVisits)
            ELSE QInt(0)]

\* Math.min(12.5, pct * 12.5)
HalfScore(pct) == MathMin(Q(25, 2), QMul(pct, Q(25, 2)))

revenueScore(metrics, goals) ==
    LET revenueGoal == parseFloat(OrDefault(goals.revenueGoal, 100000))
        revenuePct == IF QLt(QInt(0), revenueGoal)
                      THEN QDiv(metrics.revenue, revenueGoal) ELSE QInt(0)
    IN  HalfScore(revenuePct)

marginScore(metrics, goals) ==
    LET profitMarginGoal == parseFloat(OrDefault(goals.profitMarginGoal, 30))
        profitMarginPct == IF QLt(QInt(0), profitMarginGoal)
                           THEN QDiv(metrics.profitMargin, profitMarginGoal)
                           ELSE QInt(0)
    IN  HalfScore(profitMarginPct)

capacityScore(metrics, goals) ==
    LET capacityGoal == QDiv(parseFloat(OrDefault(goals.capacityGoal, 80)), QInt(100))
        capacityPct == IF QLt(QInt(0), capacityGoal)
                       THEN QDiv(metrics.capacity, capacityGoal) ELSE QInt(0)
    IN  MathMin(QInt(25), QMul(capacityPct, QInt(25)))

calculateScores(metrics, goals) ==
    LET financialScore == QAdd(revenueScore(metrics, goals), marginScore(metrics, goals))
        volumeScore ==
            MathMin(QInt(15), QMul(QDiv(metrics.newClientVisits, QInt(30)), QInt(15)))
        continuationScore ==
            MathMin(QInt(10),
                    QMul(QDiv(metrics.treatmentPlanConversionRate, Q(1, 2)), QInt(10)))
        newClientFlowScore == QAdd(volumeScore, continuationScore)
        trafficScore ==
            MathMin(QInt(10), QMul(QDiv(metrics.websiteVisits, QInt(1200)), QInt(10)))
        conversionScore ==
            MathMin(QInt(10),
                    QMul(QDiv(metrics.websiteConversionRate, Q(1, 50)), QInt(10)))
        resultsScore ==
            MathMin(QInt(5), QMul(QDiv(metrics.newClientVisits, QInt(24)), QInt(5)))
        marketingScore == QAdd(QAdd(trafficScore, conversionScore), resultsScore)
    IN  [financialScore |-> financialScore,
         capacityScore |-> capacityScore(metrics, goals),
         newClientFlowScore |-> newClientFlowScore,
         marketingScore |-> marketingScore,
         totalScore |->
            QAdd(QAdd(QAdd(financialScore, capacityScore(metrics, goals)),
                      newClientFlowScore), marketingScore)]

\* the months of the form: no negative number
MonthDatas ==
    [revenue : {0, 100, 2000},
     operatingExpenses : {0, 1000},
     cogs : {10},
     payroll : {<<>>, <<[amount |-> 50], [amount |-> 25]>>},
     expenses : {<<[amount |-> 5]>>},
     services : {<<>>, <<[providerHours |-> 10, bookedHours |-> 8]>>,
                 <<[providerHours |-> 10, bookedHours |-> 20],
                   [providerHours |-> 0, bookedHours |-> 0]>>},
     totalClients : {0, 10},
     websiteVisits : {0, 2400},
     websiteConversionRate : {0, 5},
     newClientVisits : {0, 40},
     clientsConvertingToTreatment : {0, 30}]

\* the goals of the form or of the goals row
GoalsGiven ==
    [revenueGoal : {JsNum(0), JsNum(1000), JsNum(0 - 5), JsText(0)},
     profitMarginGoal : {JsNum(0), JsNum(30), JsNum(0 - 5)},
     capacityGoal : {JsNum(0), JsNum(80), JsUndefined}]

\* the dashboard holds a month and the goals
InitScore ==
    /\ now = 0
    /\ users = InitUsers
    /\ tokens = {}
    /\ db = EmptyDb
    /\ tx = EmptyBag
    /\ invitations = {}
    /\ global_goals = {}
    /\ guard = NoGuard
    /\ password_reset_tokens = {}
    /\ clinics = Clinics
    /\ \E monthData \in MonthDatas, goals \in GoalsGiven :
          res = Resp("monthData", "none", "none", 0, <<>>,
                     [monthData |-> monthData, goals |-> goals])

\* calculateScores(calculateMonth(monthData), goals)
Calculate ==
    /\ res.op = "monthData"
    /\ res' = Resp("calculateScores", "none", "none", 0,
                   <<calculateMonth(res.req.monthData),
                     calculateScores(calculateMonth(res.req.monthData), res.req.goals)>>,
                   res.req)

NextScore ==
    Calculate
        /\ UNCHANGED <<now, users, tokens, db, tx, invitations, global_goals, guard,
                       password_reset_tokens, clinics>>

SpecScore == InitScore /\ [][NextScore]_vars

----------------------------------------------------------------------------
(* Properties of the audit aggregate store                                 *)

RECURSIVE SeqToBag(_)
SeqToBag(seq) ==
    IF seq = <<>> THEN EmptyBag
    ELSE SetToBag({Head(seq)}) (+) SeqToBag(Tail(seq))

\* the child rows of table k a call with this content supplies
Supplied(k, auditId, content) ==
    LET items == Items(content, ListKeys[k])
    IN  SeqToBag([n \in 1..Len(items) |-> ChildRow(k, auditId, items[n])])

\* the composite holds the fields and the three collections of one call
IsCallOf(comp, content) ==
    /\ comp.audit = AuditRow(comp.audit.id, comp.audit.clinic_id,
                             comp.audit.audit_month, comp.audit.created_by, content)
    /\ comp.payroll = Supplied(1, comp.audit.id, content)
    /\ comp.expenses = Supplied(2, comp.audit.id, content)
    /\ comp.services = Supplied(3, comp.audit.id, content)

ClinicOf(userId) ==
    IF userId \in DOMAIN users THEN users[userId].clinic_id ELSE "none"

\* the audits of a clinic with their children
ClinicData(D, clinicId) ==
    {Composite(D, r) : r \in {x \in D.monthly_audits : x.clinic_id = clinicId}}

\* the clinics of the principals on whose behalf the step ran
StepClinics ==
    IF res' # NoResp THEN {ClinicOf(res'.user)}
    ELSE {t.user.clinic_id :
            t \in (BagToSet(tx) \ BagToSet(tx')) \cup (BagToSet(tx') \ BagToSet(tx))}

SaveDone == res.op = "saveAudit" /\ res.status = 200
SaveFailure == res.op = "saveAudit" /\ res.status = 500
ReqDate == ToDate(res.req.body.auditMonth)
Feb == "2025-02-01"

\* C1: tenant isolation.  A list or get answers only with audits of the
\* principal's clinic, each with its own children, and a step changes the
\* audits or children of a clinic only on behalf of a principal of that clinic.
C1_Step ==
    /\ (res'.op \in {"listAudits", "getAudit"} /\ res'.status = 200) =>
          \A n \in 1..Len(res'.body) :
             LET comp == res'.body[n]
             IN  /\ comp.audit.clinic_id = ClinicOf(res'.user)
                 /\ comp \in ClinicData(db', ClinicOf(res'.user))
                 /\ \A r \in DOMAIN comp.payroll \cup DOMAIN comp.expenses
                             \cup DOMAIN comp.services :
                        r.monthly_audit_id = comp.audit.id
    /\ \A cl \in Clinics :
          ClinicData(db', cl) # ClinicData(db, cl) => cl \in StepClinics

C1_TenantIsolation == [][C1_Step]_vars

C1_Witness ==
    /\ Stored(db, "A", Feb) # {}
    /\ Stored(db, "B", Feb) # {}
    /\ \A a \in Stored(db, "A", Feb), b \in Stored(db, "B", Feb) :
          a.audit.revenue # b.audit.revenue
    /\ res.op = "getAudit" /\ res.status = 200 /\ res.user = "u1"
    /\ res.body[1].audit.clinic_id = "A"

\* C2: a failed saveAudit leaves the audit of its (clinic, month) and the
\* children as they were before the call; a failed first save leaves neither
\* an audit row nor children.
C2_RollbackRestores ==
    SaveFailure =>
        /\ Stored(db, res.req.scope, ReqDate) = res.req.before
        /\ res.req.before = {} =>
              \A k \in 1..3 :
                 ChildrenOf(db[ChildTables[k]], res.req.auditId) = EmptyBag

C2_Witness ==
    /\ SaveFailure
    /\ res.req.body.content = BadChild
    /\ res.req.k = 3 /\ res.req.i = Len(BadChild.services)
    /\ \E c \in res.req.before : BagCardinality(c.payroll) = 3
    /\ Stored(db, res.req.scope, ReqDate) = res.req.before

\* C3: after a successful saveAudit the three child collections of the audit
\* are exactly the ones the call supplied; an omitted or empty list leaves
\* no child of that kind.
C3_ChildrenReplaced ==
    SaveDone =>
        \A k \in 1..3 :
           ChildrenOf(db[ChildTables[k]], res.req.auditId)
              = Supplied(k, res.req.auditId, res.req.body.content)

C3_Witness ==
    /\ SaveDone
    /\ \E c \in res.req.before :
          BagCardinality(c.payroll) = 3 /\ BagCardinality(c.expenses) = 1
    /\ BagCardinality(ChildrenOf(db.payroll_items, res.req.auditId)) = 1
    /\ ChildrenOf(db.additional_expenses, res.req.auditId) = EmptyBag
    /\ ChildrenOf(db.services, res.req.auditId) = EmptyBag

\* C4: there is at most one MonthlyAudit per (clinic, month); a save for a
\* month that has an audit writes that row, and listAudits has one entry per
\* month.
C4_UniqueMonth ==
    /\ \A r1, r2 \in db.monthly_audits :
          (r1.clinic_id = r2.clinic_id /\ r1.audit_month = r2.audit_month)
              => r1 = r2
    /\ (SaveDone /\ res.req.before # {}) =>
          {c.audit.id : c \in res.req.before} = {res.req.auditId}
    /\ (res.op = "listAudits" /\ res.status = 200) =>
          \A m, n \in 1..Len(res.body) :
             res.body[m].audit.audit_month = res.body[n].audit.audit_month
                => m = n

C4_Witness ==
    /\ SaveDone
    /\ \E c \in res.req.before :
          c.audit.revenue # OrZero(res.req.body.content, "revenue")
    /\ Cardinality(Stored(db, res.req.scope, ReqDate)) = 1
    /\ \A c \in Stored(db, res.req.scope, ReqDate) :
          c.audit.revenue = OrZero(res.req.body.content, "revenue")

C6_LastCommitWins ==
    /\ \A r \in db.monthly_audits :
          \E content \in Contents : IsCallOf(Composite(db, r), content)
    /\ SaveDone =>
          /\ Stored(db, res.req.scope, ReqDate) # {}
          /\ \A c \in Stored(db, res.req.scope, ReqDate) :
                IsCallOf(c, res.req.body.content)

\* one call has committed while another call for the same (clinic, month)
\* with other content is in flight
C6_Witness ==
    /\ SaveDone
    /\ \E t \in InFlight :
          /\ t.pc = "upsert"
          /\ t.scope = res.req.scope
          /\ t.body.auditMonth = res.req.body.auditMonth
          /\ t.body.content # res.req.body.content
          /\ t.body.content # BadChild

\* the saveAudit transactions that have written and not yet committed
Open == {t \in InFlight : t.pc \in {"delete", "insert", "commit"}}

\* the composites of a read response
Returned == {res.body[n] : n \in 1..Len(res.body)}

\* C7: a getAudit or listAudits that runs while a saveAudit transaction is
\* open returns the audit as it was before the transaction, complete; no
\* read returns an audit that is not the complete outcome of one call.
C7_NoIntermediateRead ==
    (res.op \in {"listAudits", "getAudit"} /\ res.status \in {200, 404}) =>
        /\ \A comp \in Returned : \E content \in Contents : IsCallOf(comp, content)
        /\ \A t \in Open :
              (/\ t.scope = ClinicOf(res.user)
               /\ res.op = "getAudit" => ToDate(res.month) = ToDate(t.body.auditMonth))
                 => {comp \in Returned :
                        comp.audit.audit_month = ToDate(t.body.auditMonth)} = t.before

C7_Witness ==
    /\ res.op = "getAudit" /\ res.status = 200
    /\ \E t \in Open :
          /\ t.pc = "insert" /\ t.k = 3
          /\ t.scope = ClinicOf(res.user)
          /\ ToDate(res.month) = ToDate(t.body.auditMonth)
          /\ Returned = t.before
          /\ \A comp \in Returned : ~IsCallOf(comp, t.body.content)

\* C8: getAudit and deleteAudit for a month without an audit in the
\* principal's clinic answer 404 and change nothing.
C8_Step ==
    (/\ res'.op \in {"getAudit", "deleteAudit"}
     /\ res'.user \in DOMAIN users
     /\ ValidDate(ToDate(res'.month))
     /\ Stored(db, ClinicOf(res'.user), ToDate(res'.month)) = {})
        => res'.status = 404 /\ db' = db /\ tx' = tx

C8_NotFound == [][C8_Step]_vars

C8_Witness ==
    /\ res.op = "deleteAudit" /\ res.status = 404 /\ res.user = "u1"
    /\ Stored(db, "A", ToDate(res.month)) = {}
    /\ Stored(db, "B", ToDate(res.month)) # {}

----------------------------------------------------------------------------
(* Properties of the access guard                                          *)

ProtectedOps ==
    {"listUsers", "invite", "listInvitations", "cancelInvitation", "deactivate",
     "activate", "getGoals", "updateGoals"}

AdminOps == ProtectedOps \ {"getGoals"}

\* the header carries a token the server issued, as issued, and unexpired
Acceptable(hdr) ==
    /\ hdr.scheme = "Bearer"
    /\ hdr.token \in tokens
    /\ now < hdr.token.exp

\* the active flag of the user the token names
HolderActive(hdr) == users[hdr.token.userId].is_active

\* C9: the access guard answers 401 when the bearer token is absent,
\* malformed, tampered or expired and 403 when the token is good and its user
\* is inactive; a request reaches a protected operation only with a good
\* token of a user who is active at that time, as that user.
C9_Step ==
    /\ res'.op = "authenticate" =>
          /\ guard' = NoGuard
          /\ ~Acceptable(res'.req.hdr) => res'.status = 401
          /\ Acceptable(res'.req.hdr) =>
                ~HolderActive(res'.req.hdr) /\ res'.status = 403
    /\ guard' # NoGuard =>
          /\ Acceptable(guard'.hdr)
          /\ HolderActive(guard'.hdr)
          /\ guard'.user = users[guard'.hdr.token.userId]
    /\ res'.op \in ProtectedOps =>
          guard # NoGuard /\ res'.user = guard.user.id

C9_AccessGuard == [][C9_Step]_vars

\* a token issued while the user was active is refused after the deactivation
C9_Witness ==
    /\ res.op = "authenticate" /\ res.status = 403
    /\ Acceptable(res.req.hdr)
    /\ res.req.hdr.token.exp - SessionTimeout <= now
    /\ ~HolderActive(res.req.hdr)

\* C10: an admin-only route called by a principal whose role is not admin
\* answers 403 and leaves users, invitations and goals unchanged.
C10_Step ==
    (res'.op \in AdminOps /\ users[res'.user].role # "admin") =>
        /\ res'.status = 403
        /\ users' = users
        /\ invitations' = invitations
        /\ global_goals' = global_goals

C10_AdminOnly == [][C10_Step]_vars

C10_Witness ==
    /\ res.op = "cancelInvitation" /\ res.status = 403
    /\ res.user = "u2" /\ users["u2"].role = "member"
    /\ \E i \in invitations : i.clinic_id = "A" /\ i.status = "pending"
    /\ \E g \in global_goals : g.clinic_id = "A"

\* C14: when sendEmail fails during invite, the pending invitation exists
\* afterwards and the invite call reports success.
C14_InviteSurvivesMailFailure ==
    (/\ res.op = "invite"
     /\ res.status \notin {400, 403}
     /\ res.req.arg[3])
        => /\ res.status = 200
           /\ \E i \in invitations :
                 /\ i.email = NormalizeEmail(res.req.arg[1])
                 /\ i.clinic_id = users[res.user].clinic_id
                 /\ i.status = "pending"

----------------------------------------------------------------------------
(* Properties of login and password reset                                  *)

\* the email and the password of the login request that res answers
LoginEmail == res.req.arg[1]
LoginPassword == res.req.arg[2]

\* addresses that pass isEmail and belong to no user
Unregistered(U) == {e \in AuthEmails : IsEmail(e) /\ LoginUser(U, e) = "none"}

\* C11: login with a registered email (of an active or an inactive user) and
\* a wrong password answers exactly what login with an unregistered email
\* answers.
C11_NoEnumeration ==
    (/\ res.op = "login"
     /\ LoginUser(users, LoginEmail) # "none"
     /\ LoginPassword # ""
     /\ ~bcryptCompare(LoginPassword, users[LoginUser(users, LoginEmail)].password_hash))
        => \A e \in Unregistered(users) :
              [status |-> res.status, error |-> res.body[1]]
                 = LoginOutcome(users, e, LoginPassword)

\* the password is the one of the user the email names
CorrectPassword(U, email, password) ==
    /\ LoginUser(U, email) # "none"
    /\ U[LoginUser(U, email)].password_hash = bcryptHash(password)

\* C12: login with the correct password of an inactive user answers 403,
\* issues no token and leaves last_login_at alone; with the correct password
\* of an active user it sets last_login_at and issues a token; a failed login
\* changes no stored state.
C12_Step ==
    res'.op = "login" =>
        LET email == res'.req.arg[1]
            password == res'.req.arg[2]
            u == LoginUser(users, email)
        IN  /\ res'.status # 200 =>
                  UNCHANGED <<users, tokens, db, invitations, global_goals,
                              password_reset_tokens, clinics>>
            /\ (CorrectPassword(users, email, password) /\ ~users[u].is_active) =>
                  /\ res'.status = 403
                  /\ tokens' = tokens
                  /\ users' = users
            /\ (CorrectPassword(users, email, password) /\ users[u].is_active) =>
                  /\ res'.status = 200
                  /\ users'[u].last_login_at = <<now>>
                  /\ \E tok \in tokens' :
                        /\ tok.userId = u
                        /\ tok.exp = now + SessionTimeout
                        /\ res'.body = <<tok>>

C12_LoginEffects == [][C12_Step]_vars

C12_Witness ==
    /\ res.op = "login" /\ res.status = 403
    /\ CorrectPassword(users, LoginEmail, LoginPassword)
    /\ ~users["u2"].is_active /\ LoginUser(users, LoginEmail) = "u2"
    /\ users["u2"].last_login_at = <<>>
    /\ \A tok \in tokens : tok.userId # "u2"

\* C13: forgot-password answers the same success whether or not the email is
\* registered and whether or not the mail could be sent, and creates a reset
\* token only for a registered email.
C13_ResetRequestUniform ==
    (res.op = "forgotPassword" /\ IsEmail(res.req.arg[1])) =>
        /\ res.status = 200
        /\ res.body = <<ResetSent>>
        /\ \A r \in password_reset_tokens : r.user_id \in DOMAIN users

\* the password hashes of the users
Hashes(U) == [u \in DOMAIN U |-> U[u].password_hash]

\* a request the step admitted: it is in flight after the step once more
\* than before
Admitted(t) == CopiesIn(t, tx') > CopiesIn(t, tx)

\* C15: a reset token that was used stays in the table, used; a successful
\* reset leaves its token used; a reset-password request that arrives after
\* the token was used, even before its expiry, is answered 400 and changes no
\* password hash.
C15_Step ==
    /\ \A r \in password_reset_tokens : r.used => r \in password_reset_tokens'
    /\ (res'.op = "resetPassword" /\ res'.status = 200) =>
          \E r \in password_reset_tokens' : r.token = res'.req.token /\ r.used
    /\ \A r \in password_reset_tokens :
          r.used =>
             /\ \A t \in BagToSet(tx') :
                   (t.kind = "reset" /\ t.token = r.token) => ~Admitted(t)
             /\ (res'.op = "resetPassword" /\ tx' = tx /\ res'.req.token = r.token) =>
                   /\ res'.status = 400
                   /\ Hashes(users') = Hashes(users)

C15_UsedOnce == [][C15_Step]_vars

C15_Witness ==
    /\ res.op = "resetPassword" /\ res.status = 400
    /\ res.body = <<"Invalid or expired reset token">>
    /\ \E r \in password_reset_tokens :
          /\ r.token = res.req.token
          /\ r.used
          /\ r.expires_at > now
          /\ users[r.user_id].password_hash # bcryptHash(res.req.password)

\* the tokens marked used
UsedTokens(T) == {r.token : r \in {x \in T : x.used}}

\* C16: reset-password succeeds only for a request that selected an unused
\* row of its token with an expiry later than the time of the SELECT; with no
\* such row it answers 400; a request that does not succeed changes no
\* password hash and no token row; a success sets the hash and the used mark
\* in one step, and no other step of the reset changes either.
C16_Step ==
    /\ \A t \in BagToSet(tx') :
          (t.kind = "reset" /\ Admitted(t)) =>
             /\ t.row \in password_reset_tokens
             /\ t.row.token = t.token /\ ~t.row.used /\ t.row.expires_at > now
             /\ t.at = now
    /\ (res'.op = "resetPassword" /\ res'.status = 200) =>
          /\ ~res'.req.row.used /\ res'.req.row.expires_at > res'.req.at
          /\ users'[res'.req.row.user_id].password_hash = bcryptHash(res'.req.password)
          /\ res'.req.token \in UsedTokens(password_reset_tokens')
    /\ (res'.op = "resetPassword" /\ res'.status # 200) =>
          /\ Hashes(users') = Hashes(users)
          /\ password_reset_tokens' = password_reset_tokens
    /\ (/\ res'.op = "resetPassword" /\ tx' = tx
        /\ ~\E r \in password_reset_tokens :
               r.token = res'.req.token /\ ~r.used /\ r.expires_at > now) =>
          res'.status = 400
    /\ (\/ Hashes(users') # Hashes(users)
        \/ UsedTokens(password_reset_tokens') # UsedTokens(password_reset_tokens)) =>
          res'.op = "resetPassword" /\ res'.status = 200

C16_ResetAtomic == [][C16_Step]_vars

\* an unused token is refused after its expiry
C16_Witness ==
    /\ res.op = "resetPassword" /\ res.status = 400
    /\ IsLengthMin8(res.req.password)
    /\ \E r \in password_reset_tokens :
          r.token = res.req.token /\ ~r.used /\ r.expires_at <= now

----------------------------------------------------------------------------
(* Properties of accepting an invitation and of signing up                 *)

\* the users that have this email
UsersOf(U, email) == {u \in DOMAIN U : U[u].email = email}

\* the step changes no row of the identity tables and issues no token
JoinUnchanged ==
    UNCHANGED <<users, invitations, clinics, global_goals, tokens>>

\* C17: acceptInvitation goes on past its checks only with a token that
\* matches an invitation that is pending and has not expired, and past the
\* email check only while no user has the invitation's email; a request
\* stopped by a check is answered 400 and changes nothing
C17_Step ==
    /\ \A t \in BagToSet(tx') :
          (t.kind = "accept" /\ Admitted(t)) =>
              IF t.pc = "email"
              THEN /\ t.inv \in invitations
                   /\ t.inv.token = t.body.token
                   /\ t.inv.status = "pending"
                   /\ t.inv.expires_at > now
              ELSE UsersOf(users, t.inv.email) = {}
    /\ (res'.op = "acceptInvitation" /\ res'.req.pc \in {"begin", "email"})
          => res'.status = 400 /\ JoinUnchanged
    /\ (res'.op = "acceptInvitation" /\ res'.status = 400) => JoinUnchanged

C17_AcceptRefused == [][C17_Step]_vars

\* an invitation still pending is refused because its expiry has passed
C17_Witness ==
    /\ res.op = "acceptInvitation"
    /\ res.status = 400
    /\ res.body = <<"Invalid or expired invitation">>
    /\ \E i \in invitations :
          /\ i.token = res.req.body.token
          /\ i.status = "pending"
          /\ i.expires_at <= now

\* C18: an accepted invitation stays as it is; an acceptInvitation that
\* succeeds finds the invitation of its token pending, leaves it accepted and
\* leaves exactly one user with its email; no acceptInvitation succeeds with
\* the token of an accepted invitation; no two users share an email
C18_Step ==
    /\ \A i \in invitations : i.status = "accepted" => i \in invitations'
    /\ (res'.op = "acceptInvitation" /\ res'.status = 201) =>
          \E i \in invitations :
              /\ i.token = res'.req.body.token
              /\ i.status = "pending"
              /\ \E j \in invitations' : j.id = i.id /\ j.status = "accepted"
              /\ Cardinality(UsersOf(users', i.email)) = 1
    /\ \A i \in invitations :
          i.status = "accepted" =>
              ~(/\ res'.op = "acceptInvitation"
                /\ res'.req.body.token = i.token
                /\ res'.status = 201)
    /\ \A u, v \in DOMAIN users' : users'[u].email = users'[v].email => u = v

C18_AcceptedOnce == [][C18_Step]_vars

\* a request that found the invitation pending fails at its INSERT after
\* another request has accepted the invitation
C18_Witness ==
    /\ res.op = "acceptInvitation"
    /\ res.status = 500
    /\ res.req.failAt = 1
    /\ res.req.inv.status = "pending"
    /\ \E i \in invitations : i.id = res.req.inv.id /\ i.status = "accepted"
    /\ Cardinality(UsersOf(users, res.req.inv.email)) = 1

\* the users and the invitations agree: an accepted invitation has a user
\* with its email in its clinic, a pending one has none
Linked(U, Inv) ==
    \A i \in Inv :
        LET made == {u \in UsersOf(U, i.email) : U[u].clinic_id = i.clinic_id}
        IN  /\ i.status = "accepted" => made # {}
            /\ i.status = "pending" => made = {}

\* C19: a user that acceptInvitation creates has the email, the role and the
\* clinic of the invitation of the token, not those of the body, and after
\* every step the accepted invitations have their user and the pending ones
\* have none
C19_Step ==
    /\ res'.op = "acceptInvitation" =>
          \A u \in DOMAIN users' \ DOMAIN users :
              \E i \in invitations :
                  /\ i.token = res'.req.body.token
                  /\ users'[u].email = i.email
                  /\ users'[u].role = i.role
                  /\ users'[u].clinic_id = i.clinic_id
    /\ Linked(users', invitations')

C19_AcceptFromInvitation == [][C19_Step]_vars

\* an invitation as a member of A is accepted with a body that asks for the
\* role admin in clinic B
C19_Witness ==
    /\ res.op = "acceptInvitation"
    /\ res.status = 201
    /\ res.req.body.role = "admin" /\ res.req.body.clinicId = "B"
    /\ users[res.user].role = "member" /\ users[res.user].clinic_id = "A"
    /\ \E i \in invitations : i.token = res.req.body.token /\ i.status = "accepted"

\* C20: signup goes on past its email check only while no user has the
\* email; a valid signup with a registered email is answered 400 'Email
\* already registered'; a signup that is not answered 201 creates no clinic, no
\* user and no goals row
C20_Step ==
    /\ \A t \in BagToSet(tx') :
          (t.kind = "signup" /\ Admitted(t)) => UsersOf(users, t.body.email) = {}
    /\ (/\ res'.op = "signup"
        /\ res'.req.pc = "begin"
        /\ IsLengthMin8(res'.req.body.password)
        /\ res'.req.body.firstName # ""
        /\ UsersOf(users, res'.req.body.email) # {})
          => /\ res'.status = 400
             /\ res'.body = <<"Email already registered">>
    /\ (res'.op = "signup" /\ res'.status # 201)
          => UNCHANGED <<users, clinics, global_goals>>
    /\ (res'.op = "signup" /\ res'.status = 201)
          => UsersOf(users, res'.req.body.email) = {}

C20_SignupConflict == [][C20_Step]_vars

\* a signup with the email of a member of clinic A is refused
C20_Witness ==
    /\ res.op = "signup"
    /\ res.status = 400
    /\ res.body = <<"Email already registered">>
    /\ \E u \in UsersOf(users, res.req.body.email) : users[u].clinic_id = "A"
    /\ clinics = Clinics
    /\ global_goals = {DefaultGoals(c) : c \in Clinics}

\* the admins of a clinic
AdminsOf(U, c) == {u \in DOMAIN U : U[u].clinic_id = c /\ U[u].role = "admin"}

\* the goals rows of a clinic
GoalsOf(G, c) == {g \in G : g.clinic_id = c}

\* C21: every clinic has an admin and exactly one goals row, and every user
\* and every goals row belongs to a clinic that exists, whatever signups have
\* succeeded, failed at a statement or lost a race
C21_SignupAllOrNothing ==
    /\ \A c \in clinics :
          /\ AdminsOf(users, c) # {}
          /\ Cardinality(GoalsOf(global_goals, c)) = 1
    /\ \A u \in DOMAIN users : users[u].clinic_id \in clinics
    /\ \A g \in global_goals : g.clinic_id \in clinics

\* a signup has created clinic C and another one, admitted before it ended,
\* has failed at its INSERT INTO users
C21_Witness ==
    /\ res.op = "signup"
    /\ res.status = 500
    /\ res.req.failAt = 2
    /\ clinics # Clinics
    /\ \E u \in UsersOf(users, res.req.body.email) : users[u].role = "admin"

\* C22: after every step no two users share an email, and a step creates at
\* most one user, whose email no user had before
C22_Step ==
    /\ \A u, v \in DOMAIN users' : users'[u].email = users'[v].email => u = v
    /\ Cardinality(DOMAIN users' \ DOMAIN users) <= 1
    /\ \A u \in DOMAIN users' \ DOMAIN users : UsersOf(users, users'[u].email) = {}
    /\ (res'.op \in {"signup", "acceptInvitation"} /\ res'.status # 201
           /\ res'.req.failAt # 4)
          => UNCHANGED <<users, clinics, global_goals, invitations>>

C22_UniqueEmail == [][C22_Step]_vars

\* a signup, admitted while no user had the email, fails at its INSERT after
\* an acceptInvitation has created the user with that email
C22_Witness ==
    /\ res.op = "signup"
    /\ res.status = 500
    /\ res.req.failAt = 2
    /\ \E u \in UsersOf(users, res.req.body.email) : users[u].role = "member"

----------------------------------------------------------------------------
(* Properties of team management                                           *)

\* the clinic of the principal the last response answers
PrincipalClinic == users[res'.user].clinic_id

\* C23: an invite with a valid body that the admin guard let through is
\* answered 400 and creates nothing when a user of the admin's clinic has the
\* email or the clinic has a pending invitation to it; otherwise it adds
\* exactly one invitation: pending, of the admin's clinic, with the requested
\* role, the admin as inviter and an expiry 72 hours from now
C23_Step ==
    LET arg == res'.req.arg
        mail == NormalizeEmail(arg[1])
        conflict ==
            \/ \E u \in DOMAIN users :
                  users[u].email = mail /\ users[u].clinic_id = PrincipalClinic
            \/ \E i \in invitations :
                  /\ i.email = mail
                  /\ i.clinic_id = PrincipalClinic
                  /\ i.status = "pending"
        made == invitations' \ invitations
    IN  (/\ res'.op = "invite"
         /\ res'.status # 403
         /\ IsEmail(arg[1])
         /\ arg[2] \in {"admin", "member"})
            => IF conflict
               THEN res'.status = 400 /\ invitations' = invitations
               ELSE /\ invitations \subseteq invitations'
                    /\ Cardinality(made) = 1
                    /\ \A i \in made :
                          /\ i.email = mail
                          /\ i.clinic_id = PrincipalClinic
                          /\ i.role = arg[2]
                          /\ i.invited_by = res'.user
                          /\ i.status = "pending"
                          /\ i.expires_at = now + 72
                          /\ users[res'.user].role = "admin"

C23_InviteConflict == [][C23_Step]_vars

\* an invite is refused because the clinic has a pending invitation to the
\* email, while the other clinic has invited the same email too
C23_Witness ==
    /\ res.op = "invite"
    /\ res.status = 400
    /\ res.body = <<"Invitation already sent to this email">>
    /\ \E i, j \in invitations :
          /\ i.email = NormalizeEmail(res.req.arg[1])
          /\ i.clinic_id = users[res.user].clinic_id
          /\ i.status = "pending"
          /\ j.email = i.email
          /\ j.clinic_id # i.clinic_id

TeamOps ==
    {"listUsers", "invite", "listInvitations", "cancelInvitation", "deactivate",
     "activate"}

\* C24: a team-management request leaves the users and the invitations of
\* other clinics as they were; the lists hold the rows of the principal's
\* clinic and no others; cancelInvitation with the id of another clinic's
\* invitation, and activate and deactivate with the id of another clinic's
\* user, are answered 404
C24_Step ==
    (res'.op \in TeamOps /\ res'.user # "none") =>
        /\ {i \in invitations : i.clinic_id # PrincipalClinic}
              = {i \in invitations' : i.clinic_id # PrincipalClinic}
        /\ \A u \in DOMAIN users :
              users[u].clinic_id # PrincipalClinic => users'[u] = users[u]
        /\ (res'.op = "listUsers" /\ res'.status = 200) =>
              res'.body = <<{u \in DOMAIN users : users[u].clinic_id = PrincipalClinic}>>
        /\ (res'.op = "listInvitations" /\ res'.status = 200) =>
              res'.body = <<{i \in invitations : i.clinic_id = PrincipalClinic}>>
        /\ (/\ res'.op = "cancelInvitation"
            /\ res'.status # 403
            /\ \E i \in invitations :
                  i.id = res'.req.arg /\ i.clinic_id # PrincipalClinic)
              => res'.status = 404
        /\ (/\ res'.op \in {"activate", "deactivate"}
            /\ res'.status # 403
            /\ \E u \in DOMAIN users :
                  u = UuidIn(res'.req.arg) /\ users[u].clinic_id # PrincipalClinic)
              => res'.status = 404

C24_TeamIsolation == [][C24_Step]_vars

\* an admin of clinic A is answered 404 for the invitation of clinic B, which
\* stays
C24_Witness ==
    /\ res.op = "cancelInvitation"
    /\ res.status = 404
    /\ users[res.user].clinic_id = "A"
    /\ \E i \in invitations : i.id = res.req.arg /\ i.clinic_id = "B"

\* C25: a deactivate whose path names the principal, in whatever form the id
\* is written, is answered 400 and the principal stays active
C25_NoSelfDeactivation ==
    IF res.op = "deactivate" /\ res.status # 403
    THEN UuidIn(res.req.arg) = res.user
            => res.status = 400 /\ users[res.user].is_active
    ELSE TRUE

----------------------------------------------------------------------------
(* Properties of the goals                                                 *)

\* no clinic has two goals rows
GoalsUnique == \A c \in clinics : Cardinality(GoalsOf(global_goals, c)) <= 1

\* C26: no clinic has two goals rows, and every read of the goals is
\* answered with the row of the principal's clinic, which holds the defaults
\* when the read found no row
C26_LazyGoals ==
    /\ GoalsUnique
    /\ res.op = "getGoals" =>
          /\ res.status = 200
          /\ \E g \in GoalsOf(global_goals, users[res.user].clinic_id) :
                res.body = <<g>>
          /\ res.req.pc = "insert" =>
                res.body = <<DefaultGoals(users[res.user].clinic_id)>>

----------------------------------------------------------------------------
(* Properties of the scores                                                *)

\* 0 <= x <= max
Within(x, max) == QLe(QInt(0), x) /\ QLe(x, QInt(max))

\* C27: for a month without negative numbers and any goals, the four scores
\* lie in [0, 25] and the total in [0, 100]
C27_ScoreRange ==
    res.op = "calculateScores" =>
        /\ Within(res.body[2].financialScore, 25)
        /\ Within(res.body[2].capacityScore, 25)
        /\ Within(res.body[2].newClientFlowScore, 25)
        /\ Within(res.body[2].marketingScore, 25)
        /\ Within(res.body[2].totalScore, 100)

\* the goal is given and is zero or negative
NotPositive(goal) == goal.t # "undef" /\ goal.v <= 0

\* C28: a revenue goal that is zero or negative gives a revenue score of 0, a
\* margin goal that is zero or negative a margin score of 0, and a capacity
\* goal that is zero or negative a capacity score of 0
C28_GoalGuard ==
    res.op = "calculateScores" =>
        /\ NotPositive(res.req.goals.revenueGoal) =>
              revenueScore(res.body[1], res.req.goals) = QInt(0)
        /\ NotPositive(res.req.goals.profitMarginGoal) =>
              marginScore(res.body[1], res.req.goals) = QInt(0)
        /\ NotPositive(res.req.goals.capacityGoal) =>
              res.body[2].capacityScore = QInt(0)

----------------------------------------------------------------------------
(* Properties of the children of an audit                                  *)

\* the rows of the three child tables
ChildRows(D) ==
    DOMAIN D.payroll_items \cup DOMAIN D.additional_expenses \cup DOMAIN D.services

\* every child row references exactly one audit row
Owned(D) ==
    \A r \in ChildRows(D) :
        Cardinality({a \in D.monthly_audits : a.id = r.monthly_audit_id}) = 1

\* C30: after every step every payroll item, additional expense and service
\* references exactly one stored audit, and a deleteAudit leaves no child of
\* the audits it removed
C30_Step ==
    /\ Owned(db')
    /\ res'.op = "deleteAudit" =>
          \A a \in db.monthly_audits \ db'.monthly_audits :
              \A r \in ChildRows(db') : r.monthly_audit_id # a.id

C30_ChildrenOwned == [][C30_Step]_vars

\* an audit has been deleted while another audit keeps its children
C30_Witness ==
    /\ res.op = "deleteAudit"
    /\ res.status = 200
    /\ ChildRows(db) # {}
    /\ \A a \in db.monthly_audits :
          a.clinic_id = users[res.user].clinic_id => a.audit_month # ToDate(res.month)

----------------------------------------------------------------------------
(* Properties of the users table                                           *)

\* C29: a step keeps every user, with the clinic and the role the user had
\* before it
C29_Step ==
    \A u \in DOMAIN users :
        /\ u \in DOMAIN users'
        /\ users'[u].clinic_id = users[u].clinic_id
        /\ users'[u].role = users[u].role

-----------------------------------------------------------------------------
(* Failures of saveAudit                                                   *)

\* the statement (q.k, q.i) at which the transaction of q failed was refused
\* because of what the caller sent: the upsert of a month that is no date, or
\* the INSERT of a child without a name
InputViolation(q) ==
    \/ q.k = 0 /\ q.i = 0 /\ ~ValidDate(ToDate(q.body.auditMonth))
    \/ /\ q.k \in 1..3
       /\ q.i > 0
       /\ q.i = FirstViolation(q.k, Items(q.body.content, ListKeys[q.k]))

\* C31: a saveAudit whose transaction fails because the caller's input
\* violates a constraint (a child without a name, a malformed month) is
\* answered as a validation failure (a 4xx status), not with the 500 of a
\* storage fault.
C31_Step ==
    (/\ res'.op = "saveAudit"
     /\ res'.req.pc = "failed"
     /\ BagCardinality(tx') < BagCardinality(tx)
     /\ InputViolation(res'.req)) =>
        res'.status \in 400..499

C31_ValidationReported == [][C31_Step]_vars

-----------------------------------------------------------------------------
(* Concurrent password resets                                              *)

\* C32: of the reset-password requests that present one token at most one
\* succeeds: a reset is answered 200 and changes the password hash only
\* while the row of its token is still unused, so the token is consumed once.
C32_Step ==
    (res'.op = "resetPassword" /\ res'.status = 200) =>
        \E r \in password_reset_tokens :
            /\ r.token = res'.req.token
            /\ ~r.used

C32_OneResetPerToken == [][C32_Step]_vars

\* C39: a successful reset-password changes no token row but the one of the
\* token it was called with, and forgot-password leaves every row it finds as
\* it is, so another unused, unexpired token of the same user is still
\* accepted: a reset is refused as invalid only when no unused, unexpired row
\* holds its token.
C39_Step ==
    /\ (res'.op = "resetPassword" /\ res'.status = 200) =>
          \A r \in password_reset_tokens :
              r.token # res'.req.token => r \in password_reset_tokens'
    /\ res'.op = "forgotPassword" =>
          password_reset_tokens \subseteq password_reset_tokens'
    /\ (/\ res'.op = "resetPassword"
        /\ res'.body = <<"Invalid or expired reset token">>) =>
          ~ \E r \in password_reset_tokens :
                /\ r.token = res'.req.token
                /\ ~r.used
                /\ r.expires_at > now

C39_OtherTokensKept == [][C39_Step]_vars

C39_Witness ==
    /\ res.op = "resetPassword" /\ res.status = 200
    /\ \E r \in password_reset_tokens :
          /\ r.token # res.req.token
          /\ r.user_id = res.req.row.user_id
          /\ ~r.used
          /\ r.expires_at > now

-----------------------------------------------------------------------------
(* The creator of an audit                                                 *)

\* C38: created_by of the audit of a clinic and month is set by the save
\* that inserts the row, to the user of that save, and no later step changes
\* it while the row exists: a save of the same month by another user of the
\* clinic replaces the other columns and keeps created_by.
C38_Step ==
    \A r2 \in db'.monthly_audits :
        LET old == {r \in db.monthly_audits :
                       r.clinic_id = r2.clinic_id /\ r.audit_month = r2.audit_month}
        IN  IF old = {}
            THEN res'.op = "saveAudit" /\ res'.status = 200
                    /\ r2.created_by = res'.user
            ELSE \A r \in old : r2.created_by = r.created_by /\ r2.id = r.id

C38_CreatorKept == [][C38_Step]_vars

C38_Witness ==
    /\ res.op = "saveAudit" /\ res.status = 200
    /\ \E r \in db.monthly_audits :
          /\ r.id = res.req.auditId
          /\ r.clinic_id = ClinicOf(res.user)
          /\ r.created_by # res.user
          /\ r = AuditRow(r.id, r.clinic_id, r.audit_month, r.created_by,
                          res.req.body.content)

-----------------------------------------------------------------------------
(* Invitations and admins under concurrent requests                        *)

\* C33: cancelInvitation does not delete an accepted invitation: a row with
\* status accepted is still in the table after every step.
C33_Step ==
    \A i \in invitations : i.status = "accepted" => i \in invitations'

C33_AcceptedKept == [][C33_Step]_vars

\* the active admins of a clinic
ActiveAdmins(U, c) ==
    {u \in DOMAIN U : U[u].clinic_id = c /\ U[u].role = "admin" /\ U[u].is_active}

\* C34: in every reachable state every clinic has at least one active admin,
\* also when two admins of a clinic deactivate each other concurrently.
C34_ActiveAdmin ==
    \A c \in clinics : ActiveAdmins(users, c) # {}

\* C35: at most one pending invitation exists per email and clinic, also
\* after two concurrent invites of the same email.
C35_OnePending ==
    \A i, j \in invitations :
        (/\ i.status = "pending" /\ j.status = "pending"
         /\ i.email = j.email
         /\ i.clinic_id = j.clinic_id) => i = j

\* C36: once the expiry of an invitation has passed without its being
\* redeemed, the admin can invite the email again without cancelling: invite
\* answers 'Invitation already sent to this email' only while a pending
\* invitation of the email and clinic is unexpired.
C36_ExpiredFreesEmail ==
    (/\ res.op = "invite"
     /\ res.body = <<"Invitation already sent to this email">>) =>
        \E i \in invitations :
            /\ i.status = "pending"
            /\ i.email = NormalizeEmail(res.req.arg[1])
            /\ i.clinic_id = ClinicOf(res.user)
            /\ i.expires_at > now

\* C37: invite creates no pending invitation for an email that is registered
\* to a user, of the inviting clinic or of another one.
C37_Step ==
    \A i \in invitations' \ invitations :
        i.status = "pending" => ~Registered(users, i.email)

C37_NoInviteForUser == [][C37_Step]_vars

====
